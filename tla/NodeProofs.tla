------------------------------ MODULE NodeProofs ------------------------------
(***************************************************************************)
(* For any loads, buffers, pools and numbers of clients: the pool and the  *)
(* channels stay within their limits, consensus works above the last       *)
(* committed block, and state sync serves committed blocks only.  What     *)
(* makes them hold is the lock.  The loop stops waiting for a handler that *)
(* takes too long, so handlers of several events run together; but those   *)
(* that are past the lock and before the unlock are one at a time, so that *)
(* the height which a message was compared with is still the height when   *)
(* its block is stored and committed, and nobody else opens a unit of work *)
(* between the release of the old one and the new one.                     *)
(***************************************************************************)
EXTENDS Node, FiniteSetTheorems, TLAPS

USE Zenon

-----------------------------------------------------------------------------
(* The inductive invariant *)

\* Where the handler of an event holds the lock of consensus.
Held == {"locked", "unlock", "validators", "refresh", "work", "write", "store",
         "commit", "metadata", "sending", "broadcast"}

Critical(i) == at[i] \in Held \/ (at[i] = "publish" /\ out[i] = NewHeightEvent)

HandlerOK(i) ==
    /\ Critical(i) => lock = i
    /\ at[i] = "publish" => out[i].kind \in {"transition", "newheight"}
    /\ at[i] = "staked" => event[i].kind \in {"newheight", "transition"}
    /\ at[i] = "validators" => event[i].kind \in HotstuffKinds
    /\ at[i] \in {"store", "commit"} => event[i].kind = "decide"
    /\ at[i] \in {"validators", "store", "commit"} => event[i].h = height
    /\ at[i] \in {"work", "write"} => ~ uow
    /\ at[i] = "write" => i \in reading

EventOK(e) == e.kind \in Kinds /\ (e.kind = "decide" => e.h <= MaxHeight)

HandlersInv ==
    /\ \A i \in DOMAIN at : HandlerOK(i)
    /\ \A i \in DOMAIN event : EventOK(event[i])

InputInv ==
    /\ load \in Loads /\ received \in Nat
    /\ \A c \in Clients : client[c].reading => client[c].reads > 0

StoreInv == height = 0 => stored \subseteq {0}

IInv == TypeOK /\ HandlersInv /\ InputInv /\ WorksAboveCommitted /\ StoreInv

-----------------------------------------------------------------------------
(* Sequences and sets *)

LEMMA SetElement ==
    ASSUME NEW S, NEW s \in Seq(S), NEW i \in DOMAIN s, NEW x \in S
    PROVE  LET t == [s EXCEPT ![i] = x]
           IN  /\ t \in Seq(S) /\ Len(t) = Len(s) /\ DOMAIN t = DOMAIN s
               /\ t[i] = x /\ \A j \in DOMAIN s : j # i => t[j] = s[j]
BY SMT

LEMMA FirstElement ==
    ASSUME NEW S, NEW s \in Seq(S), s # <<>>
    PROVE  Head(s) \in S /\ Tail(s) \in Seq(S) /\ Len(Tail(s)) <= Len(s)
BY SMT

LEMMA IndexesFinite ==
    ASSUME NEW n \in Nat, NEW S \in SUBSET (1 .. n)
    PROVE  IsFiniteSet(S) /\ Cardinality(S) \in Nat
<1>1. IsFiniteSet(1 .. n)
  <2>1. 1 \in Int /\ n \in Int
    BY SMT
  <2> QED
    BY <2>1, FS_Interval
<1>2. IsFiniteSet(S)
  BY <1>1, FS_Subset
<1> QED
  BY <1>2, FS_CardinalityType

LEMMA CountAdd ==
    ASSUME NEW S, NEW x, IsFiniteSet(S)
    PROVE  /\ IsFiniteSet(S \cup {x}) /\ Cardinality(S) \in Nat
           /\ Cardinality(S \cup {x}) \in Nat
           /\ Cardinality(S \cup {x}) <= Cardinality(S) + 1
<1>1. Cardinality(S) \in Nat
  BY FS_CardinalityType
<1>2. /\ IsFiniteSet(S \cup {x})
      /\ Cardinality(S \cup {x}) = IF x \in S THEN Cardinality(S) ELSE Cardinality(S) + 1
  BY FS_AddElement
<1> QED
  BY <1>1, <1>2, SMT

LEMMA CountRemove ==
    ASSUME NEW S, NEW x, IsFiniteSet(S)
    PROVE  /\ IsFiniteSet(S \ {x}) /\ Cardinality(S) \in Nat
           /\ Cardinality(S \ {x}) \in Nat
           /\ Cardinality(S \ {x}) <= Cardinality(S)
           /\ x \in S => Cardinality(S \ {x}) = Cardinality(S) - 1
<1>1. Cardinality(S) \in Nat
  BY FS_CardinalityType
<1>2. /\ IsFiniteSet(S \ {x})
      /\ Cardinality(S \ {x}) = IF x \in S THEN Cardinality(S) - 1 ELSE Cardinality(S)
  BY FS_RemoveElement
<1>3. Cardinality(S \ {x}) \in Nat
  BY <1>2, FS_CardinalityType
<1> QED
  BY <1>1, <1>2, <1>3, SMT

-----------------------------------------------------------------------------
(* The constants, the events and the parts of TypeOK *)

LEMMA Numbers ==
    /\ BusSize \in Nat \ {0} /\ ChannelSize \in Nat \ {0} /\ MaxConns \in Nat
    /\ MaxHeight \in Nat /\ Word \in Nat /\ Word > MaxHeight + 1
    /\ 0 \in 0 .. MaxHeight + 1 /\ 1 \in 0 .. MaxHeight + 1
    /\ 1 \in 1 .. MaxHeight + 1 /\ 0 \in 0 .. MaxHeight
<1>1. /\ BusSize \in Nat \ {0} /\ ChannelSize \in Nat \ {0} /\ MaxConns \in Nat
      /\ MaxHeight \in Nat /\ Word \in Nat /\ Word > MaxHeight + 1
  BY NodeAssumption
<1> QED
  BY <1>1, SMT

LEMMA EventTypes ==
    /\ NewHeightEvent \in Event /\ NewHeightEvent.kind = "newheight"
    /\ NoEvent \in Event /\ NodeStartedEvent \in Event
    /\ NodeStartedEvent.kind = "started"
    /\ \A to \in States : Transition(to) \in Event /\ Transition(to).kind = "transition"
    /\ \A e \in [kind : Kinds, h : 0 .. MaxHeight + 1, to : States] :
         e \in Event /\ e.kind \in Kinds
<1>1. 0 \in 0 .. MaxHeight + 1 /\ "Stopped" \in States
  BY Numbers DEF States
<1>2. {"transition", "newheight", "started"} \subseteq Kinds
  BY DEF Kinds
<1> QED
  BY <1>1, <1>2 DEF NewHeightEvent, NoEvent, NodeStartedEvent, Transition,
     Message, Event

ControlType ==
    /\ fsm \in States
    /\ event \in Seq(Event) /\ bus \in Seq(1 .. Len(event))
    /\ at \in Seq(PCs) /\ Len(at) = Len(event)
    /\ out \in Seq(Event) /\ Len(out) = Len(event)
    /\ loop \in 0 .. Len(event) /\ lock \in 0 .. Len(event)
    /\ Len(bus) <= BusSize

PoolType ==
    /\ reading \subseteq DOMAIN at /\ uow \in BOOLEAN
    /\ leaked \in Nat /\ InUse <= MaxConns
    /\ timer \in {"idle", "broadcast", "reading"}
    /\ client \in [Clients -> [reads : Nat, keeps : Nat, reading : BOOLEAN]]

ChainType ==
    /\ metadata \in 0 .. ChannelSize /\ blocks \in 0 .. ChannelSize
    /\ height \in 0 .. MaxHeight + 1 /\ committed \in 1 .. MaxHeight + 1
    /\ stored \subseteq 0 .. MaxHeight /\ replies \subseteq 0 .. MaxHeight

LEMMA TypeParts ==
    /\ TypeOK <=> ControlType /\ PoolType /\ ChainType
    /\ TypeOK' <=> ControlType' /\ PoolType' /\ ChainType'
BY DEF TypeOK, ControlType, PoolType, ChainType

ChainInv == ChainType /\ WorksAboveCommitted /\ StoreInv

\* The lengths and the indexes of what is kept for each event.
LEMMA Indexes ==
    ASSUME ControlType
    PROVE  /\ Len(event) \in Nat /\ DOMAIN event = 1 .. Len(event)
           /\ DOMAIN at = 1 .. Len(event) /\ DOMAIN out = 1 .. Len(event)
           /\ \A i \in DOMAIN at : at[i] \in PCs /\ event[i] \in Event /\ out[i] \in Event
<1>1. event \in Seq(Event) /\ at \in Seq(PCs) /\ out \in Seq(Event)
  BY DEF ControlType
<1>2. Len(at) = Len(event) /\ Len(out) = Len(event)
  BY DEF ControlType
<1> QED
  BY <1>1, <1>2, SMT

-----------------------------------------------------------------------------
(* The connections in use *)

Sending == {i \in DOMAIN at : at[i] = "sending"}
Asking  == {c \in Clients : client[c].reading}
OfWork  == IF uow THEN 2 ELSE 0
OfTimer == IF timer = "reading" THEN 1 ELSE 0

LEMMA InUseSum ==
    /\ InUse = leaked + OfWork + Cardinality(reading) + Cardinality(Sending)
                 + OfTimer + Cardinality(Asking)
    /\ InUse' = leaked' + OfWork' + Cardinality(reading') + Cardinality(Sending')
                  + OfTimer' + Cardinality(Asking')
BY DEF InUse, Sending, Asking, OfWork, OfTimer

LEMMA AskingFinite ==
    /\ IsFiniteSet(Asking) /\ Cardinality(Asking) \in Nat
    /\ IsFiniteSet(Asking') /\ Cardinality(Asking') \in Nat
<1>1. IsFiniteSet(Clients)
  BY LoadsAssumption
<1>2. Asking \in SUBSET Clients /\ Asking' \in SUBSET Clients
  BY DEF Asking
<1>3. IsFiniteSet(Asking) /\ IsFiniteSet(Asking')
  BY <1>1, <1>2, FS_Subset
<1> QED
  BY <1>3, FS_CardinalityType

\* The summands before a step.
LEMMA Summands ==
    ASSUME ControlType, PoolType
    PROVE  /\ IsFiniteSet(reading) /\ Cardinality(reading) \in Nat
           /\ IsFiniteSet(Sending) /\ Cardinality(Sending) \in Nat
           /\ leaked \in Nat /\ OfWork \in Nat /\ OfTimer \in Nat
           /\ InUse \in Nat /\ InUse <= MaxConns
<1>1. Len(event) \in Nat /\ DOMAIN at = 1 .. Len(event)
  BY Indexes
<1>2. reading \in SUBSET (1 .. Len(event)) /\ Sending \in SUBSET (1 .. Len(event))
  BY <1>1 DEF PoolType, Sending
<1>3. /\ IsFiniteSet(reading) /\ Cardinality(reading) \in Nat
      /\ IsFiniteSet(Sending) /\ Cardinality(Sending) \in Nat
  BY <1>1, <1>2, IndexesFinite
<1>4. OfWork \in Nat /\ OfTimer \in Nat /\ leaked \in Nat /\ InUse <= MaxConns
  BY SMT DEF OfWork, OfTimer, PoolType
<1>5. InUse \in Nat
  BY <1>3, <1>4, InUseSum, AskingFinite, SMT
<1> QED
  BY <1>3, <1>4, <1>5

\* A step after which each summand is what it was or less.
LEMMA PoolNotMore ==
    ASSUME ControlType, PoolType,
           leaked' = leaked, uow' = uow \/ uow' = FALSE,
           reading' = reading \/ \E i : reading' = reading \ {i},
           Sending' = Sending \/ \E i : Sending' = Sending \ {i},
           OfTimer' = OfTimer \/ OfTimer' = 0,
           Asking' = Asking \/ \E c : Asking' = Asking \ {c}
    PROVE  InUse' <= MaxConns
<1>1. Cardinality(reading') \in Nat /\ Cardinality(reading') <= Cardinality(reading)
  <2>1. CASE reading' = reading
    BY <2>1, Summands, SMT
  <2>2. CASE \E i : reading' = reading \ {i}
    BY <2>2, Summands, CountRemove
  <2> QED
    BY <2>1, <2>2
<1>2. Cardinality(Sending') \in Nat /\ Cardinality(Sending') <= Cardinality(Sending)
  <2>1. CASE Sending' = Sending
    BY <2>1, Summands, SMT
  <2>2. CASE \E i : Sending' = Sending \ {i}
    BY <2>2, Summands, CountRemove
  <2> QED
    BY <2>1, <2>2
<1>3. Cardinality(Asking') \in Nat /\ Cardinality(Asking') <= Cardinality(Asking)
  <2>1. CASE Asking' = Asking
    BY <2>1, AskingFinite, SMT
  <2>2. CASE \E c : Asking' = Asking \ {c}
    BY <2>2, AskingFinite, CountRemove
  <2> QED
    BY <2>1, <2>2
<1>4. OfWork' \in Nat /\ OfWork' <= OfWork
  BY SMT DEF OfWork
<1>5. OfTimer' \in Nat /\ OfTimer' <= OfTimer
  BY Summands, SMT
<1> QED
  BY <1>1, <1>2, <1>3, <1>4, <1>5, InUseSum, Summands, AskingFinite, Numbers, SMT

\* A step that takes one connection, and keeps it or will give it back
OneMore ==
    \/ /\ leaked' = leaked + 1 /\ reading' = reading /\ Sending' = Sending
       /\ OfTimer' = OfTimer /\ Asking' = Asking
    \/ /\ leaked' = leaked /\ Sending' = Sending
       /\ OfTimer' = OfTimer /\ Asking' = Asking
       /\ \E i : reading' = reading \cup {i}
    \/ /\ leaked' = leaked /\ reading' = reading
       /\ OfTimer' = OfTimer /\ Asking' = Asking
       /\ \E i : Sending' = Sending \cup {i}
    \/ /\ leaked' = leaked /\ reading' = reading /\ Sending' = Sending
       /\ OfTimer = 0 /\ OfTimer' = 1 /\ Asking' = Asking
    \/ /\ leaked' = leaked /\ reading' = reading /\ Sending' = Sending
       /\ OfTimer' = OfTimer /\ \E c : Asking' = Asking \cup {c}

LEMMA PoolOneMore ==
    ASSUME ControlType, PoolType, Free, uow' = uow, OneMore
    PROVE  InUse' <= MaxConns
<1>0. InUse + 1 <= MaxConns /\ OfWork' = OfWork
  BY Summands, Numbers, SMT DEF Free, OfWork
<1>1. ASSUME NEW i, reading' = reading \cup {i}
      PROVE  Cardinality(reading') \in Nat /\ Cardinality(reading') <= Cardinality(reading) + 1
  BY <1>1, Summands, CountAdd
<1>2. ASSUME NEW i, Sending' = Sending \cup {i}
      PROVE  Cardinality(Sending') \in Nat /\ Cardinality(Sending') <= Cardinality(Sending) + 1
  BY <1>2, Summands, CountAdd
<1>3. ASSUME NEW c, Asking' = Asking \cup {c}
      PROVE  Cardinality(Asking') \in Nat /\ Cardinality(Asking') <= Cardinality(Asking) + 1
  BY <1>3, AskingFinite, CountAdd
<1>4. CASE /\ leaked' = leaked + 1 /\ reading' = reading /\ Sending' = Sending
           /\ OfTimer' = OfTimer /\ Asking' = Asking
  BY <1>0, <1>4, InUseSum, Summands, AskingFinite, Numbers, SMT
<1>5. CASE /\ leaked' = leaked /\ Sending' = Sending
           /\ OfTimer' = OfTimer /\ Asking' = Asking
           /\ \E i : reading' = reading \cup {i}
  <2>1. Cardinality(reading') \in Nat /\ Cardinality(reading') <= Cardinality(reading) + 1
    BY <1>1, <1>5
  <2> QED
    BY <1>0, <1>5, <2>1, InUseSum, Summands, AskingFinite, Numbers, SMT
<1>6. CASE /\ leaked' = leaked /\ reading' = reading
           /\ OfTimer' = OfTimer /\ Asking' = Asking
           /\ \E i : Sending' = Sending \cup {i}
  <2>1. Cardinality(Sending') \in Nat /\ Cardinality(Sending') <= Cardinality(Sending) + 1
    BY <1>2, <1>6
  <2> QED
    BY <1>0, <1>6, <2>1, InUseSum, Summands, AskingFinite, Numbers, SMT
<1>7. CASE /\ leaked' = leaked /\ reading' = reading /\ Sending' = Sending
           /\ OfTimer = 0 /\ OfTimer' = 1 /\ Asking' = Asking
  BY <1>0, <1>7, InUseSum, Summands, AskingFinite, Numbers, SMT
<1>8. CASE /\ leaked' = leaked /\ reading' = reading /\ Sending' = Sending
           /\ OfTimer' = OfTimer /\ \E c : Asking' = Asking \cup {c}
  <2>1. Cardinality(Asking') \in Nat /\ Cardinality(Asking') <= Cardinality(Asking) + 1
    BY <1>3, <1>8
  <2> QED
    BY <1>0, <1>8, <2>1, InUseSum, Summands, AskingFinite, Numbers, SMT
<1> QED
  BY <1>4, <1>5, <1>6, <1>7, <1>8 DEF OneMore

\* NewUnitOfWork in the end: the connection that the handler held to read and
\* one free connection are those of the unit of work.
LEMMA PoolWork ==
    ASSUME ControlType, PoolType, Free, ~ uow, uow' = TRUE, leaked' = leaked,
           Sending' = Sending, OfTimer' = OfTimer, Asking' = Asking,
           NEW i \in reading, reading' = reading \ {i}
    PROVE  InUse' <= MaxConns
<1>0. InUse + 1 <= MaxConns /\ OfWork' = 2 /\ OfWork = 0
  BY Summands, Numbers, SMT DEF Free, OfWork
<1>1. Cardinality(reading') \in Nat /\ Cardinality(reading') = Cardinality(reading) - 1
  BY Summands, CountRemove
<1> QED
  BY <1>0, <1>1, InUseSum, Summands, AskingFinite, Numbers, SMT

-----------------------------------------------------------------------------
(* Handlers *)

\* A handler that does not move, while another one does something: either it
\* is past no lock, or what its invariant is about stays.
LEMMA OtherHandler ==
    ASSUME NEW j, HandlerOK(j), at'[j] = at[j], event'[j] = event[j],
           out'[j] = out[j],
           \/ ~ Critical(j)
           \/ /\ lock' = lock /\ height' = height /\ (uow' => uow)
              /\ j \in reading => j \in reading'
    PROVE  HandlerOK(j)'
BY DEF HandlerOK, Critical, Held

\* A step of the handler of event i that leaves the events alone.
LEMMA HandlersKept ==
    ASSUME ControlType, HandlersInv, NEW i \in DOMAIN at,
           DOMAIN at' = DOMAIN at, event' = event,
           \A j \in DOMAIN at : j # i => at'[j] = at[j] /\ out'[j] = out[j],
           HandlerOK(i)',
           \/ lock = i
           \/ /\ lock' = lock \/ lock = 0
              /\ height' = height /\ (uow' => uow) /\ reading \ {i} \subseteq reading'
    PROVE  HandlersInv'
<1>1. ASSUME NEW j \in DOMAIN at PROVE HandlerOK(j)'
  <2>1. CASE j = i
    BY <2>1
  <2>2. CASE j # i
    <3>1. j # 0
      BY Indexes, SMT
    <3>2. Critical(j) => lock = j
      BY DEF HandlersInv, HandlerOK
    <3> QED
      BY <2>2, <3>1, <3>2, OtherHandler DEF HandlersInv
  <2> QED
    BY <2>1, <2>2
<1> QED
  BY <1>1 DEF HandlersInv

\* Goto
LEMMA GotoFacts ==
    ASSUME ControlType, NEW i \in DOMAIN at, NEW pc \in PCs, Goto(i, pc)
    PROVE  /\ at' \in Seq(PCs) /\ Len(at') = Len(at) /\ DOMAIN at' = DOMAIN at
           /\ at'[i] = pc /\ \A j \in DOMAIN at : j # i => at'[j] = at[j]
           /\ pc # "sending" => Sending' = Sending \ {i}
           /\ pc # "sending" /\ at[i] # "sending" => Sending' = Sending
           /\ pc = "sending" => Sending' = Sending \cup {i}
<1>1. /\ at' \in Seq(PCs) /\ Len(at') = Len(at) /\ DOMAIN at' = DOMAIN at
      /\ at'[i] = pc /\ \A j \in DOMAIN at : j # i => at'[j] = at[j]
  BY SetElement DEF ControlType, Goto
<1>2. pc # "sending" => Sending' = Sending \ {i}
  BY <1>1 DEF Sending
<1>3. at[i] # "sending" => Sending \ {i} = Sending
  BY DEF Sending
<1>4. pc = "sending" => Sending' = Sending \cup {i}
  BY <1>1 DEF Sending
<1> QED
  BY <1>1, <1>2, <1>3, <1>4

\* What a handler is about to publish
LEMMA OutFacts ==
    ASSUME ControlType, NEW i \in DOMAIN at, NEW e \in Event,
           out' = [out EXCEPT ![i] = e]
    PROVE  /\ out' \in Seq(Event) /\ Len(out') = Len(out) /\ out'[i] = e
           /\ \A j \in DOMAIN at : j # i => out'[j] = out[j]
<1>1. DOMAIN out = DOMAIN at
  BY Indexes
<1>a. i \in DOMAIN out /\ out \in Seq(Event)
  BY <1>1 DEF ControlType
<1>2. /\ out' \in Seq(Event) /\ Len(out') = Len(out) /\ out'[i] = e
      /\ \A j \in DOMAIN out : j # i => out'[j] = out[j]
  BY <1>a, SMT
<1> QED
  BY <1>1, <1>2

LEMMA IInvParts ==
    /\ IInv <=> ControlType /\ PoolType /\ HandlersInv /\ InputInv /\ ChainInv
    /\ IInv' <=> ControlType' /\ PoolType' /\ HandlersInv' /\ InputInv' /\ ChainInv'
BY TypeParts DEF IInv, ChainInv

LEMMA ChainKept ==
    ASSUME ChainInv, UNCHANGED <<channels, chain>>
    PROVE  ChainInv'
BY DEF ChainInv, ChainType, WorksAboveCommitted, StoreInv, channels, chain

LEMMA InputKept ==
    ASSUME InputInv, UNCHANGED <<load, received, client>>
    PROVE  InputInv'
BY DEF InputInv

\* The handler of event i goes on at pc, and the events stay.
LEMMA HandlerMoves ==
    ASSUME ControlType, HandlersInv, NEW i \in DOMAIN at, NEW pc \in PCs, Goto(i, pc),
           UNCHANGED <<event, bus, loop>>, fsm' \in States, lock' \in {lock, i, 0},
           UNCHANGED out \/ \E e \in Event : out' = [out EXCEPT ![i] = e],
           HandlerOK(i)',
           \/ lock = i
           \/ /\ lock' = lock \/ lock = 0
              /\ height' = height /\ (uow' => uow) /\ reading \ {i} \subseteq reading'
    PROVE  ControlType' /\ HandlersInv'
<1>1. /\ at' \in Seq(PCs) /\ Len(at') = Len(at) /\ DOMAIN at' = DOMAIN at
      /\ \A j \in DOMAIN at : j # i => at'[j] = at[j]
  BY GotoFacts
<1>2. /\ out' \in Seq(Event) /\ Len(out') = Len(out)
      /\ \A j \in DOMAIN at : j # i => out'[j] = out[j]
  BY OutFacts DEF ControlType
<1>3. lock' \in 0 .. Len(event)
  <2>1. i \in 0 .. Len(event) /\ 0 \in 0 .. Len(event)
    BY Indexes, SMT
  <2> QED
    BY <2>1 DEF ControlType
<1>4. ControlType'
  BY <1>1, <1>2, <1>3 DEF ControlType
<1>5. HandlersInv'
  BY <1>1, <1>2, HandlersKept
<1> QED
  BY <1>4, <1>5

\* A step without connections, or one that releases the unit of work.
LEMMA PoolKept ==
    ASSUME ControlType, PoolType, NEW i \in DOMAIN at, NEW pc \in PCs, Goto(i, pc),
           pc # "sending",
           UNCHANGED <<reading, leaked, timer, client>>, uow' = uow \/ uow' = FALSE
    PROVE  PoolType'
<1>1. Sending' = Sending \ {i} /\ DOMAIN at' = DOMAIN at
  BY GotoFacts
<1>2. OfTimer' = OfTimer /\ Asking' = Asking
  BY DEF OfTimer, Asking
<1>3. InUse' <= MaxConns
  BY <1>1, <1>2, PoolNotMore
<1> QED
  BY <1>1, <1>3 DEF PoolType

\* A handler goes on without the lock, or with the lock to its release.
GoesOn(i, pc) ==
    \/ pc \in {"done", "fire", "peerstore", "lock"}
    \/ pc = "staked" /\ event[i].kind \in {"newheight", "transition"}
    \/ pc \in {"unlock", "broadcast", "metadata", "refresh"} /\ lock = i
    \/ pc = "validators" /\ lock = i /\ event[i].kind \in HotstuffKinds
       /\ event[i].h = height

LEMMA PlainStep ==
    ASSUME IInv, NEW i \in DOMAIN at, NEW pc \in PCs, Goto(i, pc), GoesOn(i, pc),
           UNCHANGED <<load, fsm, event, bus, out, loop, lock, pool, channels, chain,
                       timer, client, received>>
    PROVE  IInv'
<1>0. ControlType /\ PoolType /\ HandlersInv /\ InputInv /\ ChainInv
  BY IInvParts
<1>1. at'[i] = pc /\ pc # "sending"
  BY <1>0, GotoFacts DEF GoesOn
<1>2. HandlerOK(i)'
  BY <1>1 DEF GoesOn, HandlerOK, Critical, Held, pool, chain
<1>3. ControlType' /\ HandlersInv'
  <2>1. fsm' \in States
    BY <1>0 DEF ControlType
  <2> QED
    BY <1>0, <1>2, <2>1, HandlerMoves DEF pool, chain
<1>4. PoolType'
  BY <1>0, <1>1, PoolKept DEF pool
<1>5. ChainInv' /\ InputInv'
  BY <1>0, ChainKept, InputKept
<1> QED
  BY <1>3, <1>4, <1>5, IInvParts

-----------------------------------------------------------------------------
(* The main loop *)

LEMMA LoopSteps ==
    ASSUME IInv, UNCHANGED vars \/ Timeout \/ HandlerDone
    PROVE  IInv'
<1>0. ControlType /\ PoolType /\ HandlersInv /\ InputInv /\ ChainInv
  BY IInvParts
<1>1. /\ UNCHANGED <<load, fsm, event, bus, at, out, lock, reading, uow, leaked, channels,
                     chain, timer, client, received, height>>
      /\ loop' \in {loop, 0}
  BY DEF vars, handlers, pool, bounds, chain, Timeout, HandlerDone, idle
<1>2. loop' \in 0 .. Len(event)
  <2>1. 0 \in 0 .. Len(event)
    BY <1>0, Indexes, SMT
  <2> QED
    BY <1>0, <1>1, <2>1 DEF ControlType
<1>3. ControlType'
  BY <1>0, <1>1, <1>2 DEF ControlType
<1>4. PoolType'
  BY <1>0, <1>1 DEF PoolType, InUse
<1>5. HandlersInv'
  BY <1>0, <1>1 DEF HandlersInv, HandlerOK, Critical
<1>6. ChainInv' /\ InputInv'
  BY <1>0, <1>1, ChainKept, InputKept
<1> QED
  BY <1>3, <1>4, <1>5, <1>6, IInvParts

LEMMA TakeEventStep ==
    ASSUME IInv, TakeEvent
    PROVE  IInv'
<1>0. ControlType /\ PoolType /\ HandlersInv /\ InputInv /\ ChainInv
  BY IInvParts
<1>a. PICK i : i = Head(bus)
  OBVIOUS
<1> DEFINE kind == event[i].kind
<1>1. /\ bus # <<>> /\ loop' = i /\ bus' = Tail(bus)
      /\ UNCHANGED <<load, fsm, event, out, lock, reading, uow, leaked, channels,
                     chain, timer, client, received, height>>
  BY <1>a DEF TakeEvent, idle, pool, bounds, chain
<1>2. i \in DOMAIN at /\ i \in DOMAIN event /\ i \in 0 .. Len(event)
      /\ bus' \in Seq(1 .. Len(event)) /\ Len(bus') <= BusSize
  <2>1. bus \in Seq(1 .. Len(event)) /\ Len(bus) <= BusSize
    BY <1>0 DEF ControlType
  <2>2. /\ i \in 1 .. Len(event) /\ Tail(bus) \in Seq(1 .. Len(event))
        /\ Len(Tail(bus)) <= Len(bus)
    BY <1>a, <1>1, <2>1, FirstElement
  <2>3. Len(bus') <= BusSize
    <3>1. Len(bus) \in Nat /\ Len(Tail(bus)) \in Nat
      BY <2>1, <2>2, SMT
    <3> QED
      BY <1>1, <2>1, <2>2, <3>1, Numbers, SMT
  <2>4. i \in 0 .. Len(event)
    BY <1>0, <2>2, Indexes, SMT
  <2> QED
    BY <1>0, <1>1, <2>2, <2>3, <2>4, Indexes
<1>3. PICK pc \in PCs : /\ Goto(i, pc) /\ pc \in {"lock", "fire", "staked", "done"}
                        /\ pc = "staked" => kind = "newheight"
  <2>1. kind \in Kinds
    BY <1>0, <1>2 DEF HandlersInv, EventOK
  <2>2. kind \in Locking \/ kind = "started" \/ kind = "newheight" \/ kind = "tx"
    BY <2>1 DEF Kinds, Locking
  <2>3. {"lock", "fire", "staked", "done"} \subseteq PCs
    BY DEF PCs, Reads
  <2>4. "started" \notin Locking /\ "newheight" \notin Locking /\ "tx" \notin Locking
    BY DEF Locking, HotstuffKinds, StateSyncKinds, DebugKinds
  <2>5. Goto(i, CASE kind \in Locking   -> "lock"
                  [] kind = "started"   -> "fire"
                  [] kind = "newheight" -> "staked"
                  [] kind = "tx"        -> "done")
    BY <1>a DEF TakeEvent
  <2> HIDE DEF kind
  <2>6. CASE kind \in Locking
    BY <2>3, <2>4, <2>5, <2>6
  <2>7. CASE kind = "started"
    BY <2>3, <2>4, <2>5, <2>7
  <2>8. CASE kind = "newheight"
    BY <2>3, <2>4, <2>5, <2>8
  <2>9. CASE kind = "tx"
    BY <2>3, <2>4, <2>5, <2>9
  <2> QED
    BY <2>2, <2>6, <2>7, <2>8, <2>9
<1>4. /\ at' \in Seq(PCs) /\ Len(at') = Len(at) /\ DOMAIN at' = DOMAIN at
      /\ at'[i] = pc /\ \A j \in DOMAIN at : j # i => at'[j] = at[j]
  BY <1>0, <1>2, <1>3, GotoFacts
<1>5. ControlType'
  BY <1>0, <1>1, <1>2, <1>4 DEF ControlType
<1>6. HandlerOK(i)'
  BY <1>1, <1>3, <1>4 DEF HandlerOK, Critical, Held
<1>7. HandlersInv'
  BY <1>0, <1>1, <1>2, <1>4, <1>6, HandlersKept
<1>8. PoolType'
  BY <1>0, <1>1, <1>2, <1>3, PoolKept
<1>9. ChainInv' /\ InputInv'
  BY <1>0, <1>1, ChainKept, InputKept
<1> QED
  BY <1>5, <1>7, <1>8, <1>9, IInvParts

LEMMA LockStep ==
    ASSUME IInv, NEW i \in DOMAIN at, Lock(i)
    PROVE  IInv'
<1>0. ControlType /\ PoolType /\ HandlersInv /\ InputInv /\ ChainInv
  BY IInvParts
<1>1. /\ lock = 0 /\ lock' = i /\ Goto(i, "locked") /\ "locked" \in PCs
      /\ UNCHANGED <<load, fsm, event, bus, out, loop, reading, uow, leaked, channels,
                     chain, timer, client, received, height>>
  BY DEF Lock, idle, pool, bounds, chain, PCs
<1>2. at'[i] = "locked"
  BY <1>0, <1>1, GotoFacts
<1>3. HandlerOK(i)'
  BY <1>1, <1>2 DEF HandlerOK, Critical
<1>4. ControlType' /\ HandlersInv'
  <2>1. fsm' \in States
    BY <1>0, <1>1 DEF ControlType
  <2> QED
    BY <1>0, <1>1, <1>3, <2>1, HandlerMoves
<1>5. PoolType'
  BY <1>0, <1>1, PoolKept
<1>6. ChainInv' /\ InputInv'
  BY <1>0, <1>1, ChainKept, InputKept
<1> QED
  BY <1>4, <1>5, <1>6, IInvParts

LEMMA UnlockStep ==
    ASSUME IInv, NEW i \in DOMAIN at, Unlock(i)
    PROVE  IInv'
<1>0. ControlType /\ PoolType /\ HandlersInv /\ InputInv /\ ChainInv
  BY IInvParts
<1>1. /\ at[i] = "unlock" /\ lock' = 0
      /\ UNCHANGED <<load, fsm, event, bus, out, loop, reading, uow, leaked, channels,
                     chain, timer, client, received, height>>
  BY DEF Unlock, Handling, idle, pool, bounds, chain
<1>2. lock = i
  BY <1>0, <1>1 DEF HandlersInv, HandlerOK, Critical, Held
<1>3. PICK pc \in PCs : /\ Goto(i, pc) /\ pc \in {"staked", "done"}
                        /\ pc = "staked" => event[i].kind = "transition"
  <2>1. "P2P_Bootstrapping" \in States /\ "staked" \in PCs /\ "done" \in PCs
    BY DEF States, PCs, Reads
  <2> QED
    BY <2>1, EventTypes DEF Unlock
<1>4. at'[i] = pc
  BY <1>0, <1>3, GotoFacts
<1>5. HandlerOK(i)'
  BY <1>1, <1>3, <1>4 DEF HandlerOK, Critical, Held
<1>6. ControlType' /\ HandlersInv'
  <2>1. fsm' \in States
    BY <1>0, <1>1 DEF ControlType
  <2> QED
    BY <1>0, <1>1, <1>2, <1>3, <1>5, <2>1, HandlerMoves
<1>7. PoolType'
  BY <1>0, <1>1, <1>3, PoolKept
<1>8. ChainInv' /\ InputInv'
  BY <1>0, <1>1, ChainKept, InputKept
<1> QED
  BY <1>6, <1>7, <1>8, IInvParts

\* PublishEventToBus: an event more, whose handler has not begun.
LEMMA EnqueueFacts ==
    ASSUME ControlType, NEW e \in Event, Enqueue(e),
           NEW a \in Seq(PCs), NEW o \in Seq(Event), Len(a) = Len(at), Len(o) = Len(out),
           at' = Append(a, "bus"), out' = Append(o, NoEvent),
           UNCHANGED <<fsm, loop, lock>>
    PROVE  /\ ControlType'
           /\ \A j \in DOMAIN at : /\ j \in DOMAIN at' /\ at'[j] = a[j]
                                   /\ out'[j] = o[j] /\ event'[j] = event[j]
           /\ \A j \in DOMAIN at' : j \in DOMAIN at \/ (at'[j] = "bus" /\ event'[j] = e)
           /\ DOMAIN event' = DOMAIN at'
           /\ Sending' = {j \in DOMAIN at : a[j] = "sending"}
<1> DEFINE n == Len(event)
<1>0. /\ n \in Nat /\ DOMAIN at = 1 .. n /\ DOMAIN event = 1 .. n /\ Len(at) = n
      /\ Len(out) = n
  BY Indexes DEF ControlType
<1>1. event \in Seq(Event) /\ bus \in Seq(1 .. n) /\ event' = Append(event, e)
      /\ bus' = Append(bus, Len(event')) /\ Len(bus) < BusSize
  BY DEF ControlType, Enqueue
<1>2. /\ event' \in Seq(Event) /\ Len(event') = n + 1 /\ DOMAIN event' = 1 .. n + 1
      /\ event'[n + 1] = e /\ \A j \in 1 .. n : event'[j] = event[j]
  BY <1>0, <1>1, SMT
<1>3. "bus" \in PCs /\ NoEvent \in Event
  BY EventTypes DEF PCs
<1>4. /\ at' \in Seq(PCs) /\ Len(at') = n + 1 /\ DOMAIN at' = 1 .. n + 1
      /\ at'[n + 1] = "bus" /\ \A j \in 1 .. n : at'[j] = a[j]
  BY <1>0, <1>3, SMT
<1>5. /\ out' \in Seq(Event) /\ Len(out') = n + 1
      /\ \A j \in 1 .. n : out'[j] = o[j]
  BY <1>0, <1>3, SMT
<1>6. bus' \in Seq(1 .. n + 1) /\ Len(bus') <= BusSize
  <2>1. n + 1 \in 1 .. n + 1 /\ bus \in Seq(1 .. n + 1) /\ Len(bus) \in Nat
    BY <1>0, <1>1, SMT
  <2>2. bus' \in Seq(1 .. n + 1) /\ Len(bus') = Len(bus) + 1
    BY <1>1, <1>2, <2>1, SMT
  <2> QED
    BY <1>1, <2>1, <2>2, Numbers, SMT
<1>7. loop \in 0 .. n + 1 /\ lock \in 0 .. n + 1
  BY <1>0, SMT DEF ControlType
<1>8. ControlType'
  BY <1>2, <1>4, <1>5, <1>6, <1>7 DEF ControlType
<1>9. \A j \in 1 .. n + 1 : j \in 1 .. n \/ j = n + 1
  BY <1>0, SMT
<1>10. \A j \in 1 .. n : j \in 1 .. n + 1
  BY <1>0, SMT
<1>11. Sending' = {j \in DOMAIN at : a[j] = "sending"}
  BY <1>0, <1>4, <1>9, <1>10 DEF Sending
<1> QED
  BY <1>0, <1>2, <1>4, <1>5, <1>8, <1>9, <1>10, <1>11

LEMMA ReceiveStep ==
    ASSUME IInv, Receive
    PROVE  IInv'
<1>0. ControlType /\ PoolType /\ HandlersInv /\ InputInv /\ ChainInv
  BY IInvParts
<1>1. PICK k, e : k = received + 1 /\ e = load.inputs[k]
  OBVIOUS
<1>2. /\ received < Len(load.inputs) /\ received' = k /\ Enqueue(e)
      /\ at' = Append(at, "bus") /\ out' = Append(out, NoEvent)
      /\ UNCHANGED <<load, fsm, loop, lock, reading, uow, leaked, channels, chain, timer,
                     client, height>>
  BY <1>1 DEF Receive, pool, chain
<1>3. /\ load.inputs \in Seq([kind : Kinds, h : 0 .. MaxHeight + 1, to : States])
      /\ \A m \in DOMAIN load.inputs :
           load.inputs[m].kind = "decide" => load.inputs[m].h <= MaxHeight
  BY <1>0, LoadsAssumption DEF InputInv
<1>4. /\ k \in Nat /\ k \in DOMAIN load.inputs
      /\ e \in [kind : Kinds, h : 0 .. MaxHeight + 1, to : States]
  <2>1. received \in Nat
    BY <1>0 DEF InputInv
  <2>2. k \in Nat /\ k \in DOMAIN load.inputs
    BY <1>1, <1>2, <1>3, <2>1, SMT
  <2> DEFINE E == [kind : Kinds, h : 0 .. MaxHeight + 1, to : States]
  <2>3. load.inputs \in Seq(E)
    BY <1>3
  <2> HIDE DEF E
  <2>4. load.inputs[k] \in E
    BY <2>2, <2>3, SMT
  <2> QED
    BY <1>1, <2>2, <2>4 DEF E
<1>5. e \in Event /\ EventOK(e)
  BY <1>1, <1>3, <1>4, EventTypes DEF EventOK
<1>6. /\ ControlType'
      /\ \A j \in DOMAIN at : /\ j \in DOMAIN at' /\ at'[j] = at[j]
                              /\ out'[j] = out[j] /\ event'[j] = event[j]
      /\ \A j \in DOMAIN at' : j \in DOMAIN at \/ (at'[j] = "bus" /\ event'[j] = e)
      /\ DOMAIN event' = DOMAIN at'
      /\ Sending' = {j \in DOMAIN at : at[j] = "sending"}
  <2>1. at \in Seq(PCs) /\ out \in Seq(Event)
    BY <1>0 DEF ControlType
  <2> QED
    BY <1>0, <1>2, <1>5, <2>1, EnqueueFacts
<1>7. HandlersInv'
  <2>1. ASSUME NEW j \in DOMAIN at' PROVE HandlerOK(j)'
    <3>1. CASE j \in DOMAIN at
      BY <1>0, <1>2, <1>6, <3>1, OtherHandler DEF HandlersInv
    <3>2. CASE at'[j] = "bus"
      BY <3>2 DEF HandlerOK, Critical, Held
    <3> QED
      BY <1>6, <3>1, <3>2
  <2>2. ASSUME NEW j \in DOMAIN event' PROVE EventOK(event'[j])
    <3>1. j \in DOMAIN at => j \in DOMAIN event
      BY <1>0, Indexes
    <3> QED
      BY <1>0, <1>5, <1>6, <3>1 DEF HandlersInv
  <2> QED
    BY <2>1, <2>2 DEF HandlersInv
<1>8. PoolType'
  <2>1. Sending' = Sending /\ OfTimer' = OfTimer /\ Asking' = Asking
    BY <1>2, <1>6 DEF Sending, OfTimer, Asking
  <2>2. InUse' <= MaxConns
    BY <1>0, <1>2, <2>1, PoolNotMore
  <2> QED
    BY <1>0, <1>2, <1>6, <2>2 DEF PoolType
<1>9. InputInv'
  BY <1>0, <1>2, <1>4 DEF InputInv
<1>10. ChainInv'
  BY <1>0, <1>2, ChainKept
<1> QED
  BY <1>6, <1>7, <1>8, <1>9, <1>10, IInvParts

LEMMA PublishStep ==
    ASSUME IInv, NEW i \in DOMAIN at, Publish(i)
    PROVE  IInv'
<1>0. ControlType /\ PoolType /\ HandlersInv /\ InputInv /\ ChainInv
  BY IInvParts
<1>1. PICK e, next : /\ e = out[i]
                     /\ next = IF out[i] = NewHeightEvent /\ event[i].kind # "reset"
                               THEN "broadcast" ELSE Unlocking(i)
  OBVIOUS
<1> DEFINE a == [at EXCEPT ![i] = next]
           o == [out EXCEPT ![i] = NoEvent]
<1>2. /\ at[i] = "publish" /\ Enqueue(e)
      /\ at' = Append(a, "bus") /\ out' = Append(o, NoEvent)
      /\ UNCHANGED <<load, fsm, loop, lock, reading, uow, leaked, channels, chain, timer,
                     client, height, received>>
  BY <1>1 DEF Publish, Handling, pool, chain, idle, bounds
<1>3. e \in Event /\ EventOK(e)
  <2>1. e \in Event /\ e.kind \in {"transition", "newheight"}
    BY <1>0, <1>1, <1>2, Indexes DEF HandlersInv, HandlerOK
  <2> QED
    BY <2>1 DEF EventOK, Kinds
<1>4. /\ next \in {"broadcast", "unlock", "done"} /\ next \in PCs
      /\ next \in {"broadcast", "unlock"} => lock = i
  <2>1. out[i] = NewHeightEvent => lock = i
    BY <1>0, <1>2 DEF HandlersInv, HandlerOK, Critical
  <2>2. next = "broadcast" \/ (lock = i /\ next = "unlock") \/ next = "done"
    BY <1>1 DEF Unlocking
  <2>3. next = "broadcast" => lock = i
    BY <1>1, <2>1 DEF Unlocking
  <2> QED
    BY <2>2, <2>3 DEF PCs, Reads
<1>5. /\ a \in Seq(PCs) /\ Len(a) = Len(at)
      /\ a[i] = next /\ \A j \in DOMAIN at : j # i => a[j] = at[j]
  <2>1. at \in Seq(PCs)
    BY <1>0 DEF ControlType
  <2> QED
    BY <1>4, <2>1, SMT
<1>6. /\ o \in Seq(Event) /\ Len(o) = Len(out)
      /\ \A j \in DOMAIN at : j # i => o[j] = out[j]
  <2>1. out \in Seq(Event) /\ DOMAIN out = DOMAIN at /\ NoEvent \in Event
    BY <1>0, Indexes, EventTypes DEF ControlType
  <2> QED
    BY <2>1, SMT
<1> HIDE DEF a, o
<1>7. /\ ControlType'
      /\ \A j \in DOMAIN at : /\ j \in DOMAIN at' /\ at'[j] = a[j]
                              /\ out'[j] = o[j] /\ event'[j] = event[j]
      /\ \A j \in DOMAIN at' : j \in DOMAIN at \/ (at'[j] = "bus" /\ event'[j] = e)
      /\ DOMAIN event' = DOMAIN at'
      /\ Sending' = {j \in DOMAIN at : a[j] = "sending"}
  BY <1>0, <1>2, <1>3, <1>5, <1>6, EnqueueFacts
<1>8. HandlersInv'
  <2>1. ASSUME NEW j \in DOMAIN at' PROVE HandlerOK(j)'
    <3>1. CASE j \in DOMAIN at /\ j # i
      <4>1. HandlerOK(j) /\ at'[j] = at[j] /\ out'[j] = out[j] /\ event'[j] = event[j]
        BY <1>0, <1>5, <1>6, <1>7, <3>1 DEF HandlersInv
      <4> QED
        BY <1>2, <4>1, OtherHandler
    <3>2. CASE at'[j] = "bus"
      BY <3>2 DEF HandlerOK, Critical, Held
    <3>3. CASE j = i
      <4>1. at'[i] = next
        BY <1>5, <1>7
      <4> QED
        BY <1>2, <1>4, <3>3, <4>1 DEF HandlerOK, Critical, Held
    <3> QED
      BY <1>7, <3>1, <3>2, <3>3
  <2>2. ASSUME NEW j \in DOMAIN event' PROVE EventOK(event'[j])
    <3>1. j \in DOMAIN at => j \in DOMAIN event
      BY <1>0, Indexes
    <3> QED
      BY <1>0, <1>3, <1>7, <3>1 DEF HandlersInv
  <2> QED
    BY <2>1, <2>2 DEF HandlersInv
<1>9. PoolType'
  <2>1. Sending' = Sending /\ OfTimer' = OfTimer /\ Asking' = Asking
    BY <1>2, <1>4, <1>5, <1>7, ZenonT(60) DEF Sending, OfTimer, Asking
  <2>2. InUse' <= MaxConns
    BY <1>0, <1>2, <2>1, PoolNotMore
  <2> QED
    BY <1>0, <1>2, <1>7, <2>2 DEF PoolType
<1>10. ChainInv' /\ InputInv'
  BY <1>0, <1>2, ChainKept, InputKept
<1> QED
  BY <1>7, <1>8, <1>9, <1>10, IInvParts

-----------------------------------------------------------------------------
(* Reads *)

LEMMA ReadBeginsStep ==
    ASSUME IInv, NEW i \in DOMAIN at, ReadBegins(i)
    PROVE  IInv'
<1>0. ControlType /\ PoolType /\ HandlersInv /\ InputInv /\ ChainInv
  BY IInvParts
<1>1. /\ Free /\ reading' = reading \cup {i}
      /\ UNCHANGED <<load, fsm, event, bus, at, out, loop, lock, uow, leaked, channels,
                     chain, timer, client, received, height>>
  BY DEF ReadBegins, handlers, bounds, chain
<1>2. ControlType'
  BY <1>0, <1>1 DEF ControlType
<1>3. HandlersInv'
  BY <1>0, <1>1 DEF HandlersInv, HandlerOK, Critical
<1>4. PoolType'
  <2>1. Sending' = Sending /\ OfTimer' = OfTimer /\ Asking' = Asking
    BY <1>1 DEF Sending, OfTimer, Asking
  <2>2. InUse' <= MaxConns
    BY <1>0, <1>1, <2>1, PoolOneMore DEF OneMore
  <2> QED
    BY <1>0, <1>1, <2>2 DEF PoolType
<1>5. ChainInv' /\ InputInv'
  BY <1>0, <1>1, ChainKept, InputKept
<1> QED
  BY <1>2, <1>3, <1>4, <1>5, IInvParts

\* A handler that releases the connection it reads with
LEMMA Released ==
    ASSUME ControlType, PoolType, NEW i \in DOMAIN at, NEW pc \in PCs, Goto(i, pc),
           pc # "sending", reading' = reading \ {i},
           UNCHANGED <<leaked, timer, client>>, uow' = uow
    PROVE  PoolType'
<1>1. Sending' = Sending \ {i} /\ DOMAIN at' = DOMAIN at
  BY GotoFacts
<1>2. OfTimer' = OfTimer /\ Asking' = Asking
  BY DEF OfTimer, Asking
<1>3. InUse' <= MaxConns
  BY <1>1, <1>2, PoolNotMore
<1> QED
  BY <1>1, <1>3 DEF PoolType

LEMMA ReadEndsStep ==
    ASSUME IInv, NEW i \in DOMAIN at, ReadEnds(i)
    PROVE  IInv'
<1>0. ControlType /\ PoolType /\ HandlersInv /\ InputInv /\ ChainInv
  BY IInvParts
<1>1. /\ at[i] \in Reads \ {"metadata"} /\ reading' = reading \ {i}
      /\ UNCHANGED <<load, fsm, event, bus, out, loop, lock, uow, leaked, channels,
                     chain, timer, client, received, height>>
  BY DEF ReadEnds, bounds, chain
<1>2. /\ HandlerOK(i)
      /\ at[i] \in {"staked", "peerstore", "validators", "broadcast"}
  BY <1>0, <1>1 DEF HandlersInv, Reads
<1>3. PICK pc \in PCs :
        /\ Goto(i, pc)
        /\ \/ pc \in {"done", "fire", "peerstore"}
           \/ pc \in {"unlock", "refresh"} /\ lock = i
           \/ pc = "store" /\ lock = i /\ event[i].kind = "decide" /\ event[i].h = height
  <2>0. {"done", "fire", "peerstore", "unlock", "refresh", "store"} \subseteq PCs
    BY DEF PCs, Reads
  <2>1. CASE at[i] = "broadcast"
    <3>1. Goto(i, "unlock") /\ lock = i
      BY <1>2, <2>1 DEF ReadEnds, HandlerOK, Critical, Held
    <3> QED
      BY <2>0, <3>1
  <2>2. CASE at[i] = "peerstore"
    <3>1. Goto(i, "done")
      BY <2>2 DEF ReadEnds
    <3> QED
      BY <2>0, <3>1
  <2>3. CASE at[i] = "staked"
    <3>1. event[i].kind \in {"newheight", "transition"}
      BY <1>2, <2>3 DEF HandlerOK
    <3>2. Goto(i, "peerstore") \/ Goto(i, "done") \/ Goto(i, "fire")
      <4>1. CASE event[i].kind = "newheight"
        BY <2>3, <4>1 DEF ReadEnds
      <4>2. CASE event[i].kind = "transition"
        BY <2>3, <4>2 DEF ReadEnds
      <4> QED
        BY <3>1, <4>1, <4>2
    <3> QED
      BY <2>0, <3>2
  <2>4. CASE at[i] = "validators"
    <3>1. event[i].kind \in {"newround", "decide"} /\ lock = i /\ event[i].h = height
      BY <1>2, <2>4 DEF HandlerOK, Critical, Held, HotstuffKinds
    <3>2. CASE event[i].kind = "newround"
      <4>1. Goto(i, "refresh")
        BY <2>4, <3>2 DEF ReadEnds
      <4> QED
        BY <2>0, <3>1, <4>1
    <3>3. CASE event[i].kind = "decide"
      <4>1. Goto(i, "store")
        BY <2>4, <3>3 DEF ReadEnds
      <4> QED
        BY <2>0, <3>1, <3>3, <4>1
    <3> QED
      BY <3>1, <3>2, <3>3
  <2> QED
    BY <1>2, <2>1, <2>2, <2>3, <2>4
<1>4. at'[i] = pc /\ pc # "sending"
  BY <1>0, <1>3, GotoFacts
<1>5. HandlerOK(i)'
  BY <1>1, <1>3, <1>4 DEF HandlerOK, Critical, Held
<1>6. ControlType' /\ HandlersInv'
  <2>1. fsm' \in States
    BY <1>0, <1>1 DEF ControlType
  <2> QED
    BY <1>0, <1>1, <1>3, <1>5, <2>1, HandlerMoves
<1>7. PoolType'
  BY <1>0, <1>1, <1>3, <1>4, Released
<1>8. ChainInv' /\ InputInv'
  BY <1>0, <1>1, ChainKept, InputKept
<1> QED
  BY <1>6, <1>7, <1>8, IInvParts

-----------------------------------------------------------------------------
(* Transitions of the state machine, and which messages are handled *)

LEMMA SendEventFacts ==
    ASSUME NEW i, NEW e, SendEvent(i, e)
    PROVE  \/ Goto(i, Unlocking(i)) /\ UNCHANGED <<fsm, out>>
           \/ /\ fsm' \in States /\ Goto(i, "publish")
              /\ out' = [out EXCEPT ![i] = Transition(fsm')]
<1> DEFINE To == {t[3] : t \in {u \in Transitions : u[1] = e /\ u[2] = fsm}}
<1>1. \A t \in Transitions : t[3] \in States
  BY SMT DEF Transitions, States
<1>2. \A s \in To : s \in States
  BY <1>1
<1>3. IF To = {}
      THEN Goto(i, Unlocking(i)) /\ UNCHANGED <<fsm, out>>
      ELSE /\ fsm' \in To
           /\ out' = [out EXCEPT ![i] = Transition(fsm')]
           /\ Goto(i, "publish")
  BY DEF SendEvent
<1> HIDE DEF To
<1> QED
  BY <1>2, <1>3

\* A handler with the lock or without it, that sends an event to the state
\* machine.
LEMMA SendEventStep ==
    ASSUME IInv, NEW i \in DOMAIN at, NEW e, SendEvent(i, e),
           UNCHANGED <<load, event, bus, loop, lock, pool, channels, chain, timer,
                       client, bounds>>
    PROVE  IInv'
<1>0. ControlType /\ PoolType /\ HandlersInv /\ InputInv /\ ChainInv
  BY IInvParts
<1>1. UNCHANGED <<load, event, bus, loop, lock, reading, uow, leaked, channels, chain, timer,
                  client, received, height>>
  BY DEF pool, bounds, chain
<1>2. CASE Goto(i, Unlocking(i)) /\ UNCHANGED <<fsm, out>>
  <2>1. PICK pc : pc = Unlocking(i)
    OBVIOUS
  <2>2. pc \in PCs /\ (pc = "done" \/ (pc = "unlock" /\ lock = i))
    BY <2>1 DEF Unlocking, PCs
  <2>3. Goto(i, pc)
    BY <1>2, <2>1
  <2> QED
    BY <1>1, <1>2, <2>2, <2>3, PlainStep DEF GoesOn, pool
<1>3. CASE /\ fsm' \in States /\ Goto(i, "publish")
           /\ out' = [out EXCEPT ![i] = Transition(fsm')]
  <2>1. PICK o : o = Transition(fsm')
    OBVIOUS
  <2>2. o \in Event /\ o.kind = "transition" /\ o # NewHeightEvent
    BY <1>3, <2>1, EventTypes
  <2>3. "publish" \in PCs
    BY DEF PCs
  <2>4. at'[i] = "publish" /\ out'[i] = o
    BY <1>0, <1>3, <2>1, <2>2, <2>3, GotoFacts, OutFacts
  <2>5. HandlerOK(i)'
    BY <2>2, <2>4 DEF HandlerOK, Critical, Held
  <2>6. ControlType' /\ HandlersInv'
    BY <1>0, <1>1, <1>3, <2>1, <2>2, <2>3, <2>5, HandlerMoves
  <2>7. PoolType'
    BY <1>0, <1>1, <1>3, <2>3, PoolKept
  <2>8. ChainInv' /\ InputInv'
    BY <1>0, <1>1, ChainKept, InputKept
  <2> QED
    BY <2>6, <2>7, <2>8, IInvParts
<1> QED
  BY <1>2, <1>3, SendEventFacts

\* What is known of a handler past the lock
LEMMA LockedFacts ==
    ASSUME HandlersInv, NEW i \in DOMAIN at, NEW kinds, Locked(i, kinds)
    PROVE  at[i] = "locked" /\ lock = i /\ event[i].kind \in kinds
BY DEF HandlersInv, HandlerOK, Critical, Held, Locked, Handling

LEMMA TransitionSteps ==
    ASSUME IInv, NEW i \in DOMAIN at, Fire(i) \/ HandleTransition(i)
    PROVE  IInv'
<1>0. HandlersInv
  BY IInvParts
<1>1. CASE Fire(i)
  BY <1>1, SendEventStep DEF Fire
<1>2. CASE HandleTransition(i)
  <2>1. CASE event[i].to = "Unsynced"
    BY <1>2, <2>1, SendEventStep DEF HandleTransition
  <2>2. CASE event[i].to # "Unsynced"
    <3>1. lock = i /\ "unlock" \in PCs
      BY <1>0, <1>2, LockedFacts DEF HandleTransition, PCs
    <3>2. Goto(i, "unlock")
          /\ UNCHANGED <<load, fsm, event, bus, out, loop, lock, pool, channels, chain,
                         timer, client, received>>
      BY <1>2, <2>2 DEF HandleTransition, bounds
    <3> QED
      BY <3>1, <3>2, PlainStep DEF GoesOn
  <2> QED
    BY <2>1, <2>2
<1> QED
  BY <1>1, <1>2

LEMMA ShouldHandleMessageStep ==
    ASSUME IInv, NEW i \in DOMAIN at, ShouldHandleMessage(i)
    PROVE  IInv'
<1>0. ControlType /\ HandlersInv /\ ChainInv
  BY IInvParts
<1>1. /\ lock = i /\ event[i].kind \in {"newround", "decide"}
      /\ {"unlock", "validators"} \subseteq PCs
  BY <1>0, LockedFacts DEF ShouldHandleMessage, PCs, Reads
<1>2. UNCHANGED <<load, event, bus, loop, lock, pool, channels, chain, timer, client,
                  bounds>>
  BY DEF ShouldHandleMessage
<1>3. event[i].h \in Nat /\ height \in Nat
  <2>1. event[i].h \in 0 .. MaxHeight + 1 /\ height \in 0 .. MaxHeight + 1
    BY <1>0, Indexes DEF Event, ChainInv, ChainType
  <2> QED
    BY <2>1, SMT
<1>4. /\ event[i].h < height => event[i].h # height /\ ~ event[i].h > height
      /\ event[i].h > height => event[i].h # height /\ ~ event[i].h < height
      /\ event[i].h = height => ~ event[i].h < height /\ ~ event[i].h > height
      /\ event[i].h < height \/ event[i].h > height \/ event[i].h = height
  BY <1>3, SMT
<1>5. CASE event[i].h < height
  <2>1. Goto(i, "unlock") /\ UNCHANGED <<fsm, out>>
    BY <1>4, <1>5 DEF ShouldHandleMessage
  <2> QED
    BY <1>1, <1>2, <2>1, PlainStep DEF GoesOn, bounds
<1>6. CASE event[i].h > height
  <2>1. SendEvent(i, "IsUnsynced")
    BY <1>4, <1>6 DEF ShouldHandleMessage
  <2> QED
    BY <1>2, <2>1, SendEventStep
<1>7. CASE event[i].h = height
  <2>1. Goto(i, "validators") /\ UNCHANGED <<fsm, out>>
    BY <1>4, <1>7 DEF ShouldHandleMessage
  <2> QED
    BY <1>1, <1>2, <1>7, <2>1, PlainStep DEF GoesOn, bounds, HotstuffKinds
<1> QED
  BY <1>4, <1>5, <1>6, <1>7

-----------------------------------------------------------------------------
(* The unit of work *)

LEMMA RefreshStep ==
    ASSUME IInv, NEW i \in DOMAIN at, RefreshUOW(i)
    PROVE  IInv'
<1>0. ControlType /\ PoolType /\ HandlersInv /\ InputInv /\ ChainInv
  BY IInvParts
<1>1. /\ at[i] = "refresh" /\ uow' = FALSE /\ Goto(i, "work") /\ "work" \in PCs
      /\ UNCHANGED <<load, fsm, event, bus, out, loop, lock, reading, leaked, channels,
                     chain, timer, client, received, height>>
  BY DEF RefreshUOW, Handling, bounds, chain, PCs
<1>2. lock = i
  BY <1>0, <1>1 DEF HandlersInv, HandlerOK, Critical, Held
<1>3. at'[i] = "work"
  BY <1>0, <1>1, GotoFacts
<1>4. HandlerOK(i)'
  BY <1>1, <1>2, <1>3 DEF HandlerOK, Critical
<1>5. ControlType' /\ HandlersInv'
  <2>1. fsm' \in States
    BY <1>0, <1>1 DEF ControlType
  <2> QED
    BY <1>0, <1>1, <1>2, <1>4, <2>1, HandlerMoves
<1>6. PoolType'
  BY <1>0, <1>1, PoolKept
<1>7. ChainInv' /\ InputInv'
  BY <1>0, <1>1, ChainKept, InputKept
<1> QED
  BY <1>5, <1>6, <1>7, IInvParts

LEMMA NewUnitOfWorkStep ==
    ASSUME IInv, NEW i \in DOMAIN at, NewUnitOfWork(i)
    PROVE  IInv'
<1>0. ControlType /\ PoolType /\ HandlersInv /\ InputInv /\ ChainInv
  BY IInvParts
<1>1. /\ Free /\ {"write", "unlock"} \subseteq PCs
      /\ UNCHANGED <<load, fsm, event, bus, out, loop, lock, leaked, channels,
                     chain, timer, client, received, height>>
  BY DEF NewUnitOfWork, bounds, chain, PCs
<1>2. fsm' \in States
  BY <1>0, <1>1 DEF ControlType
<1>3. ChainInv' /\ InputInv'
  BY <1>0, <1>1, ChainKept, InputKept
<1>4. OfTimer' = OfTimer /\ Asking' = Asking
  BY <1>1 DEF OfTimer, Asking
<1>5. CASE /\ Handling(i, "work") /\ Goto(i, "write")
           /\ reading' = reading \cup {i} /\ UNCHANGED uow
  <2>1. lock = i /\ ~ uow /\ at[i] = "work"
    BY <1>0, <1>5 DEF HandlersInv, HandlerOK, Critical, Held, Handling
  <2>2. at'[i] = "write" /\ Sending' = Sending /\ DOMAIN at' = DOMAIN at
    BY <1>0, <1>1, <1>5, <2>1, GotoFacts
  <2>3. HandlerOK(i)'
    BY <1>1, <1>5, <2>1, <2>2 DEF HandlerOK, Critical
  <2>4. ControlType' /\ HandlersInv'
    BY <1>0, <1>1, <1>2, <1>5, <2>1, <2>3, HandlerMoves
  <2>5. InUse' <= MaxConns
    BY <1>0, <1>1, <1>4, <1>5, <2>2, PoolOneMore DEF OneMore
  <2>6. PoolType'
    BY <1>0, <1>1, <1>5, <2>2, <2>5 DEF PoolType
  <2> QED
    BY <1>3, <2>4, <2>6, IInvParts
<1>6. CASE /\ Handling(i, "write") /\ Goto(i, "unlock")
           /\ reading' = reading \ {i} /\ uow' = TRUE
  <2>1. lock = i /\ ~ uow /\ at[i] = "write" /\ i \in reading
    BY <1>0, <1>6 DEF HandlersInv, HandlerOK, Critical, Held, Handling
  <2>2. at'[i] = "unlock" /\ Sending' = Sending /\ DOMAIN at' = DOMAIN at
    BY <1>0, <1>1, <1>6, <2>1, GotoFacts
  <2>3. HandlerOK(i)'
    BY <1>1, <2>1, <2>2 DEF HandlerOK, Critical
  <2>4. ControlType' /\ HandlersInv'
    BY <1>0, <1>1, <1>2, <1>6, <2>1, <2>3, HandlerMoves
  <2>5. InUse' <= MaxConns
    BY <1>0, <1>1, <1>4, <1>6, <2>1, <2>2, PoolWork
  <2>6. PoolType'
    BY <1>0, <1>1, <1>6, <2>2, <2>5 DEF PoolType
  <2> QED
    BY <1>3, <2>4, <2>6, IInvParts
<1> QED
  BY <1>5, <1>6 DEF NewUnitOfWork

\* What the height of a decided block says
LEMMA DecidedHeight ==
    ASSUME ControlType, HandlersInv, ChainInv, NEW i \in DOMAIN at,
           at[i] \in {"store", "commit"}
    PROVE  lock = i /\ height \in 0 .. MaxHeight
<1>1. /\ lock = i /\ event[i].kind = "decide" /\ event[i].h = height
      /\ EventOK(event[i])
  BY Indexes DEF HandlersInv, HandlerOK, Critical, Held
<1>2. height <= MaxHeight /\ height \in 0 .. MaxHeight + 1
  BY <1>1 DEF EventOK, ChainInv, ChainType
<1> QED
  BY <1>1, <1>2, Numbers, SMT

LEMMA StoreBlockStep ==
    ASSUME IInv, NEW i \in DOMAIN at, StoreBlock(i)
    PROVE  IInv'
<1>0. ControlType /\ PoolType /\ HandlersInv /\ InputInv /\ ChainInv
  BY IInvParts
<1>1. /\ at[i] = "store" /\ {"commit", "broadcast"} \subseteq PCs
      /\ UNCHANGED <<load, fsm, event, bus, out, loop, lock, reading, uow, leaked, channels,
                     height, committed, replies, timer, client, received>>
  BY DEF StoreBlock, Handling, bounds, pool, PCs, Reads
<1>2. lock = i /\ height \in 0 .. MaxHeight
  BY <1>0, <1>1, DecidedHeight
<1>3. PICK pc \in PCs : /\ Goto(i, pc) /\ pc \in {"commit", "broadcast"}
                        /\ stored' \in {stored, stored \cup {height}}
  BY <1>1 DEF StoreBlock
<1>4. at'[i] = pc
  BY <1>0, <1>3, GotoFacts
<1>5. HandlerOK(i)'
  <2>1. event[i].kind = "decide" /\ event[i].h = height
    BY <1>0, <1>1 DEF HandlersInv, HandlerOK
  <2> QED
    BY <1>1, <1>2, <1>3, <1>4, <2>1 DEF HandlerOK, Critical
<1>6. ControlType' /\ HandlersInv'
  <2>1. fsm' \in States
    BY <1>0, <1>1 DEF ControlType
  <2> QED
    BY <1>0, <1>1, <1>2, <1>3, <1>5, <2>1, HandlerMoves
<1>7. PoolType'
  BY <1>0, <1>1, <1>3, PoolKept
<1>8. ChainInv'
  BY <1>0, <1>1, <1>2, <1>3
     DEF ChainInv, ChainType, WorksAboveCommitted, StoreInv, channels
<1>9. InputInv'
  BY <1>0, <1>1, InputKept
<1> QED
  BY <1>6, <1>7, <1>8, <1>9, IInvParts

\* A handler that releases the unit of work and goes on to start a view, or
\* to publish a new height first.
LEMMA NewViewStep ==
    ASSUME IInv, NEW i \in DOMAIN at, lock = i, ChainInv',
           UNCHANGED <<load, fsm, event, bus, loop, lock, reading, leaked, timer, client,
                       received>>,
           uow' = uow \/ uow' = FALSE,
           \/ Goto(i, "broadcast") /\ UNCHANGED out
           \/ Goto(i, "unlock") /\ UNCHANGED out
           \/ Goto(i, "publish") /\ out' = [out EXCEPT ![i] = NewHeightEvent]
    PROVE  IInv'
<1>0. ControlType /\ PoolType /\ HandlersInv /\ InputInv
  BY IInvParts
<1>1. PICK pc \in PCs :
        /\ Goto(i, pc) /\ pc \in {"broadcast", "unlock", "publish"}
        /\ \/ pc # "publish" /\ UNCHANGED out
           \/ out' = [out EXCEPT ![i] = NewHeightEvent]
  <2>1. {"broadcast", "unlock", "publish"} \subseteq PCs
    BY DEF PCs, Reads
  <2> QED
    BY <2>1
<1>2. at'[i] = pc
  BY <1>0, <1>1, GotoFacts
<1>3. pc = "publish" => out'[i].kind = "newheight"
  BY <1>0, <1>1, EventTypes, OutFacts
<1>4. HandlerOK(i)'
  BY <1>1, <1>2, <1>3 DEF HandlerOK, Critical, Held
<1>5. ControlType' /\ HandlersInv'
  <2>1. fsm' \in States
    BY <1>0 DEF ControlType
  <2>2. UNCHANGED out \/ \E e \in Event : out' = [out EXCEPT ![i] = e]
    BY <1>1, EventTypes
  <2> QED
    BY <1>0, <1>1, <1>4, <2>1, <2>2, HandlerMoves
<1>6. PoolType'
  BY <1>0, <1>1, PoolKept
<1>7. InputInv'
  BY <1>0, InputKept
<1> QED
  BY <1>5, <1>6, <1>7, IInvParts

LEMMA CommitBlockStep ==
    ASSUME IInv, NEW i \in DOMAIN at, CommitBlock(i)
    PROVE  IInv'
<1>0. ControlType /\ PoolType /\ HandlersInv /\ InputInv /\ ChainInv
  BY IInvParts
<1>1. /\ at[i] = "commit" /\ uow' = FALSE
      /\ UNCHANGED <<load, fsm, event, bus, loop, lock, reading, leaked, channels,
                     stored, replies, timer, client, received>>
  BY DEF CommitBlock, Handling, bounds
<1>2. lock = i /\ height \in 0 .. MaxHeight
  BY <1>0, <1>1, DecidedHeight
<1>3. /\ height \in 0 .. MaxHeight + 1 /\ committed \in 1 .. MaxHeight + 1
      /\ height = committed \/ (height = 0 /\ committed = 1)
  BY <1>0 DEF ChainInv, ChainType, WorksAboveCommitted
<1>4. CASE uow /\ ~ height < committed
  <2>1. /\ committed' = committed + 1 /\ height' = height + 1
        /\ Goto(i, "publish") /\ out' = [out EXCEPT ![i] = NewHeightEvent]
    BY <1>4 DEF CommitBlock
  <2>2. /\ height' = committed' /\ height' # 0 /\ height' \in 0 .. MaxHeight + 1
        /\ committed' \in 1 .. MaxHeight + 1
    BY <1>2, <1>3, <1>4, <2>1, Numbers, SMT
  <2>3. ChainInv'
    BY <1>0, <1>1, <2>2
       DEF ChainInv, ChainType, WorksAboveCommitted, StoreInv, channels
  <2> QED
    BY <1>1, <1>2, <2>1, <2>3, NewViewStep
<1>5. CASE ~ (uow /\ ~ height < committed)
  <2>1. Goto(i, "broadcast") /\ UNCHANGED <<committed, height, out>>
    BY <1>5 DEF CommitBlock
  <2>2. ChainInv'
    BY <1>0, <1>1, <2>1, ChainKept DEF chain
  <2> QED
    BY <1>1, <1>2, <2>1, <2>2, NewViewStep
<1> QED
  BY <1>4, <1>5

-----------------------------------------------------------------------------
(* State sync and debug messages *)

LEMMA PlainSteps ==
    ASSUME IInv, NEW i \in DOMAIN at, MetadataRequest(i) \/ SendRequests(i)
    PROVE  IInv'
<1>0. HandlersInv
  BY IInvParts
<1>1. UNCHANGED <<load, fsm, event, bus, out, loop, lock, pool, channels, chain, timer,
                  client, received>>
  BY DEF MetadataRequest, SendRequests, idle, bounds
<1>2. lock = i
  BY <1>0, LockedFacts DEF MetadataRequest, SendRequests
<1>3. PICK pc \in PCs : Goto(i, pc) /\ pc \in {"unlock", "broadcast", "metadata"}
  <2>1. {"unlock", "broadcast", "metadata"} \subseteq PCs
    BY DEF PCs, Reads
  <2> QED
    BY <2>1 DEF MetadataRequest, SendRequests
<1> QED
  BY <1>1, <1>2, <1>3, PlainStep DEF GoesOn

LEMMA SendMetadataStep ==
    ASSUME IInv, NEW i \in DOMAIN at, SendMetadata(i)
    PROVE  IInv' /\ replies' \ replies \subseteq {committed - 1}
<1>0. ControlType /\ PoolType /\ HandlersInv /\ InputInv /\ ChainInv
  BY IInvParts
<1>1. /\ at[i] = "metadata" /\ Free /\ Goto(i, "sending") /\ "sending" \in PCs
      /\ replies' = replies \cup {committed - 1}
      /\ UNCHANGED <<load, fsm, event, bus, out, loop, lock, reading, uow, leaked, channels,
                     height, committed, stored, timer, client, received>>
  BY DEF SendMetadata, Handling, bounds, pool, PCs
<1>2. lock = i
  BY <1>0, <1>1 DEF HandlersInv, HandlerOK, Critical, Held
<1>3. at'[i] = "sending" /\ DOMAIN at' = DOMAIN at /\ Sending' = Sending \cup {i}
  BY <1>0, <1>1, GotoFacts
<1>4. HandlerOK(i)'
  BY <1>1, <1>2, <1>3 DEF HandlerOK, Critical
<1>5. ControlType' /\ HandlersInv'
  <2>1. fsm' \in States
    BY <1>0, <1>1 DEF ControlType
  <2> QED
    BY <1>0, <1>1, <1>2, <1>4, <2>1, HandlerMoves
<1>6. PoolType'
  <2>1. OfTimer' = OfTimer /\ Asking' = Asking
    BY <1>1 DEF OfTimer, Asking
  <2>2. InUse' <= MaxConns
    BY <1>0, <1>1, <1>3, <2>1, PoolOneMore DEF OneMore
  <2> QED
    BY <1>0, <1>1, <1>3, <2>2 DEF PoolType
<1>7. ChainInv'
  <2>1. committed - 1 \in 0 .. MaxHeight
    BY <1>0, Numbers, SMT DEF ChainInv, ChainType
  <2> QED
    BY <1>0, <1>1, <2>1
       DEF ChainInv, ChainType, WorksAboveCommitted, StoreInv, channels
<1>8. InputInv'
  BY <1>0, <1>1, InputKept
<1> QED
  BY <1>1, <1>5, <1>6, <1>7, <1>8, IInvParts

LEMMA MetadataSentStep ==
    ASSUME IInv, NEW i \in DOMAIN at, MetadataSent(i)
    PROVE  IInv'
<1>0. ControlType /\ PoolType /\ HandlersInv /\ InputInv /\ ChainInv
  BY IInvParts
<1>1. /\ at[i] = "sending" /\ Goto(i, "unlock") /\ "unlock" \in PCs
      /\ reading' = reading \ {i}
      /\ UNCHANGED <<load, fsm, event, bus, out, loop, lock, uow, leaked, channels, chain,
                     height, timer, client, received>>
  BY DEF MetadataSent, Handling, bounds, chain, PCs
<1>2. lock = i
  BY <1>0, <1>1 DEF HandlersInv, HandlerOK, Critical, Held
<1>3. at'[i] = "unlock"
  BY <1>0, <1>1, GotoFacts
<1>4. HandlerOK(i)'
  BY <1>1, <1>2, <1>3 DEF HandlerOK, Critical
<1>5. ControlType' /\ HandlersInv'
  <2>1. fsm' \in States
    BY <1>0, <1>1 DEF ControlType
  <2> QED
    BY <1>0, <1>1, <1>2, <1>4, <2>1, HandlerMoves
<1>6. PoolType'
  BY <1>0, <1>1, Released
<1>7. ChainInv' /\ InputInv'
  BY <1>0, <1>1, ChainKept, InputKept
<1> QED
  BY <1>5, <1>6, <1>7, IInvParts

\* A block that is in the store and below the height is committed; at height
\* 0, where every height is below the largest word, the store has genesis.
LEMMA StoredBelowCommitted ==
    ASSUME ChainInv, NEW h \in stored, ~ ((height + Word - 1) % Word) < h
    PROVE  h \in 0 .. MaxHeight /\ h < committed
<1>1. /\ h \in 0 .. MaxHeight /\ height \in 0 .. MaxHeight + 1
      /\ committed \in 1 .. MaxHeight + 1
      /\ height = committed \/ (height = 0 /\ committed = 1)
  BY DEF ChainInv, ChainType, WorksAboveCommitted
<1>2. CASE height = 0
  BY <1>1, <1>2, SMT DEF ChainInv, StoreInv
<1>3. CASE height # 0
  <2>1. (height + Word - 1) % Word = height - 1
    <3>1. /\ height - 1 \in 0 .. Word - 1 /\ Word > 0
          /\ height + Word - 1 = (height - 1) + 1 * Word
      BY <1>1, <1>3, Numbers, SMT
    <3> QED
      BY <1>1, <1>3, <3>1, Numbers, SMT
  <2> QED
    BY <1>1, <1>3, <2>1, Numbers, SMT
<1> QED
  BY <1>2, <1>3

LEMMA GetBlockRequestStep ==
    ASSUME IInv, NEW i \in DOMAIN at, GetBlockRequest(i)
    PROVE  IInv' /\ \A h \in replies' \ replies : h < committed
<1>0. ControlType /\ PoolType /\ HandlersInv /\ InputInv /\ ChainInv
  BY IInvParts
<1>1. UNCHANGED <<load, fsm, event, bus, out, loop, lock, reading, uow, leaked, channels,
                  height, committed, stored, timer, client, received>>
  BY DEF GetBlockRequest, bounds, pool
<1>2. lock = i
  BY <1>0, LockedFacts DEF GetBlockRequest
<1>3. /\ Goto(i, "broadcast") \/ Goto(i, "unlock")
      /\ \/ UNCHANGED replies
         \/ /\ replies' = replies \cup {event[i].h} /\ event[i].h \in stored
            /\ ~ ((height + Word - 1) % Word) < event[i].h
  BY DEF GetBlockRequest
<1>4. \A h \in replies' \ replies : h \in 0 .. MaxHeight /\ h < committed
  <2>1. CASE UNCHANGED replies
    BY <2>1
  <2>2. CASE /\ replies' = replies \cup {event[i].h} /\ event[i].h \in stored
             /\ ~ ((height + Word - 1) % Word) < event[i].h
    <3>1. event[i].h \in 0 .. MaxHeight /\ event[i].h < committed
      BY <1>0, <2>2, StoredBelowCommitted
    <3> QED
      BY <2>2, <3>1
  <2> QED
    BY <1>3, <2>1, <2>2
<1>5. ChainInv'
  BY <1>0, <1>1, <1>4 DEF ChainInv, ChainType, WorksAboveCommitted, StoreInv, channels
<1> QED
  BY <1>1, <1>2, <1>3, <1>4, <1>5, NewViewStep

LEMMA ResponseStep ==
    ASSUME IInv, NEW i \in DOMAIN at, Response(i)
    PROVE  IInv'
<1>0. ControlType /\ PoolType /\ HandlersInv /\ InputInv /\ ChainInv
  BY IInvParts
<1>1. /\ UNCHANGED <<load, fsm, event, bus, out, loop, lock, reading, uow, leaked, chain,
                     timer, client, received>>
      /\ Goto(i, "unlock")
  BY DEF Response, bounds, pool
<1>2. lock = i
  BY <1>0, LockedFacts DEF Response
<1>3. metadata' \in 0 .. ChannelSize /\ blocks' \in 0 .. ChannelSize
  <2>1. metadata \in 0 .. ChannelSize /\ blocks \in 0 .. ChannelSize
    BY <1>0 DEF ChainInv, ChainType
  <2>2. \/ metadata < ChannelSize /\ metadata' = metadata + 1 /\ blocks' = blocks
        \/ blocks < ChannelSize /\ blocks' = blocks + 1 /\ metadata' = metadata
    BY DEF Response
  <2> QED
    BY <2>1, <2>2, Numbers, SMT
<1>4. ChainInv'
  BY <1>0, <1>1, <1>3 DEF ChainInv, ChainType, WorksAboveCommitted, StoreInv, chain
<1> QED
  BY <1>1, <1>2, <1>4, NewViewStep

LEMMA TriggerNextViewStep ==
    ASSUME IInv, NEW i \in DOMAIN at, TriggerNextView(i)
    PROVE  IInv'
<1>0. ControlType /\ PoolType /\ HandlersInv /\ InputInv /\ ChainInv
  BY IInvParts
<1>1. /\ UNCHANGED <<load, fsm, event, bus, loop, lock, reading, leaked, channels,
                     committed, stored, replies, timer, client, received>>
      /\ uow' = FALSE
  BY DEF TriggerNextView, bounds
<1>2. lock = i
  BY <1>0, LockedFacts DEF TriggerNextView
<1>3. CASE height = 0
  <2>1. /\ height' = 1 /\ Goto(i, "publish")
        /\ out' = [out EXCEPT ![i] = NewHeightEvent]
    BY <1>3 DEF TriggerNextView
  <2>2. height' \in 0 .. MaxHeight + 1 /\ height' # 0 /\ (committed = 1 => height' = committed)
    BY <2>1, Numbers, SMT
  <2>3. committed = 1
    BY <1>0, <1>3, SMT DEF ChainInv, ChainType, WorksAboveCommitted
  <2>4. ChainInv'
    BY <1>0, <1>1, <2>2, <2>3
       DEF ChainInv, ChainType, WorksAboveCommitted, StoreInv, channels
  <2> QED
    BY <1>1, <1>2, <2>1, <2>4, NewViewStep
<1>4. CASE height # 0
  <2>1. Goto(i, "broadcast") /\ UNCHANGED <<height, out>>
    BY <1>4 DEF TriggerNextView
  <2>2. ChainInv'
    BY <1>0, <1>1, <2>1, ChainKept DEF chain
  <2> QED
    BY <1>1, <1>2, <2>1, <2>2, NewViewStep
<1> QED
  BY <1>3, <1>4

LEMMA ResetToGenesisStep ==
    ASSUME IInv, NEW i \in DOMAIN at, ResetToGenesis(i)
    PROVE  IInv'
<1>0. ControlType /\ PoolType /\ HandlersInv /\ InputInv /\ ChainInv
  BY IInvParts
<1>1. UNCHANGED <<load, fsm, event, bus, loop, lock, reading, uow, leaked, channels,
                  replies, timer, client, received>>
  BY DEF ResetToGenesis, bounds, pool
<1>2. lock = i
  BY <1>0, LockedFacts DEF ResetToGenesis
<1>3. CASE uow
  <2>1. Goto(i, "unlock") /\ UNCHANGED <<committed, stored, height, out>>
    BY <1>3 DEF ResetToGenesis
  <2>2. ChainInv'
    BY <1>0, <1>1, <2>1, ChainKept DEF chain
  <2> QED
    BY <1>1, <1>2, <2>1, <2>2, NewViewStep
<1>4. CASE ~ uow
  <2>1. /\ committed' = 1 /\ stored' = {0} /\ height' = 0
        /\ Goto(i, "publish") /\ out' = [out EXCEPT ![i] = NewHeightEvent]
    BY <1>4 DEF ResetToGenesis
  <2>2. ChainInv'
    BY <1>0, <1>1, <2>1, Numbers
       DEF ChainInv, ChainType, WorksAboveCommitted, StoreInv, channels
  <2> QED
    BY <1>1, <1>2, <2>1, <2>2, NewViewStep
<1> QED
  BY <1>3, <1>4

-----------------------------------------------------------------------------
(* The round timer, clients and restarts *)

LEMMA TimerSteps ==
    ASSUME IInv, TimerFires \/ TimerBroadcasts
    PROVE  IInv'
<1>0. ControlType /\ PoolType /\ HandlersInv /\ InputInv /\ ChainInv
  BY IInvParts
<1>1. UNCHANGED <<load, fsm, event, bus, at, out, loop, lock, reading, leaked, channels,
                  chain, client, received, height>>
  BY DEF TimerFires, TimerBroadcasts, handlers, pool, bounds, chain
<1>2. ControlType' /\ ChainInv' /\ InputInv'
  BY <1>0, <1>1, ChainKept, InputKept DEF ControlType
<1>3. Sending' = Sending /\ Asking' = Asking
  BY <1>1 DEF Sending, Asking
<1>4. CASE \/ uow' = FALSE /\ timer = "idle" /\ timer' = "broadcast"
           \/ uow' = uow /\ timer = "reading" /\ timer' = "idle"
  <2>a. uow' => uow
    BY <1>4
  <2>1. HandlersInv'
    BY <1>0, <1>1, <2>a DEF HandlersInv, HandlerOK, Critical
  <2>2. OfTimer' = 0
    BY <1>4 DEF OfTimer
  <2>3. InUse' <= MaxConns
    BY <1>0, <1>1, <1>3, <1>4, <2>2, PoolNotMore
  <2>4. PoolType'
    BY <1>0, <1>1, <1>4, <2>3 DEF PoolType
  <2> QED
    BY <1>2, <2>1, <2>4, IInvParts
<1>5. CASE uow' = uow /\ timer = "broadcast" /\ Free /\ timer' = "reading"
  <2>1. HandlersInv'
    BY <1>0, <1>1, <1>5 DEF HandlersInv, HandlerOK, Critical
  <2>2. OfTimer = 0 /\ OfTimer' = 1
    BY <1>5 DEF OfTimer
  <2>3. InUse' <= MaxConns
    BY <1>0, <1>1, <1>3, <1>5, <2>2, PoolOneMore DEF OneMore
  <2>4. PoolType'
    BY <1>0, <1>1, <1>5, <2>3 DEF PoolType
  <2> QED
    BY <1>2, <2>1, <2>4, IInvParts
<1> QED
  BY <1>4, <1>5 DEF TimerFires, TimerBroadcasts, pool

\* A client takes no connection, one to read, or one to keep.
ClientTakes(c) ==
    \/ leaked' = leaked /\ (client'[c].reading => client[c].reading)
    \/ leaked' = leaked /\ Free
    \/ leaked' = leaked + 1 /\ Free /\ (client'[c].reading <=> client[c].reading)

LEMMA ClientStep ==
    ASSUME IInv,
           UNCHANGED <<load, fsm, event, bus, at, out, loop, lock, reading, uow, channels,
                       chain, timer, received>>,
           NEW c \in Clients,
           client' \in [Clients -> [reads : Nat, keeps : Nat, reading : BOOLEAN]],
           \A d \in Clients : d # c => client'[d] = client[d],
           client'[c].reading => client'[c].reads > 0, ClientTakes(c)
    PROVE  IInv'
<1>0. ControlType /\ PoolType /\ HandlersInv /\ InputInv /\ ChainInv
  BY IInvParts
<1>1. ControlType' /\ ChainInv'
  BY <1>0, ChainKept DEF ControlType
<1>2. HandlersInv'
  BY <1>0 DEF HandlersInv, HandlerOK, Critical, chain
<1>3. InputInv'
  <2>1. \A d \in Clients : client'[d].reading => client'[d].reads > 0
    BY <1>0 DEF InputInv
  <2> QED
    BY <1>0, <2>1 DEF InputInv
<1>4. Sending' = Sending /\ OfTimer' = OfTimer
  BY DEF Sending, OfTimer
<1>5. /\ client'[c].reading => Asking' = Asking \cup {c}
      /\ ~ client'[c].reading => Asking' = Asking \ {c}
  BY DEF Asking
<1>6. c \in Asking <=> client[c].reading
  BY DEF Asking
<1>7. InUse' <= MaxConns
  <2>1. CASE leaked' = leaked /\ (client'[c].reading => client[c].reading)
    <3>1. Asking' = Asking \/ Asking' = Asking \ {c}
      BY <1>5, <1>6, <2>1
    <3> QED
      BY <1>0, <1>4, <2>1, <3>1, PoolNotMore
  <2>2. CASE leaked' = leaked /\ Free /\ client'[c].reading
    <3>1. Asking' = Asking \cup {c}
      BY <1>5, <2>2
    <3> QED
      BY <1>0, <1>4, <2>2, <3>1, PoolOneMore DEF OneMore
  <2>3. CASE leaked' = leaked + 1 /\ Free /\ (client'[c].reading <=> client[c].reading)
    <3>1. Asking' = Asking
      BY <1>5, <1>6, <2>3
    <3> QED
      BY <1>0, <1>4, <2>3, <3>1, PoolOneMore DEF OneMore
  <2> QED
    BY <2>1, <2>2, <2>3 DEF ClientTakes
<1>8. PoolType'
  <2>1. leaked' \in Nat
    BY <1>0, SMT DEF PoolType, ClientTakes
  <2> QED
    BY <1>0, <1>7, <2>1 DEF PoolType
<1> QED
  BY <1>1, <1>2, <1>3, <1>8, IInvParts

LEMMA ClientSteps ==
    ASSUME IInv, NEW c \in Clients,
           \/ \E r \in load.requests : Request(c, r)
           \/ RequestReads(c) \/ RequestKeeps(c) \/ RequestEnds(c)
    PROVE  IInv'
<1> DEFINE R == [reads : Nat, keeps : Nat, reading : BOOLEAN]
<1>0. ControlType /\ PoolType /\ HandlersInv /\ InputInv /\ ChainInv
  BY IInvParts
<1>1. UNCHANGED <<load, fsm, event, bus, at, out, loop, lock, reading, uow, channels,
                  chain, timer, received>>
  BY DEF Request, RequestReads, RequestKeeps, RequestEnds, handlers, pool, bounds
<1>2. /\ client \in [Clients -> R] /\ client[c].reads \in Nat /\ client[c].keeps \in Nat
      /\ client[c].reading => client[c].reads > 0
  BY <1>0 DEF PoolType, InputInv
<1>3. ASSUME NEW e \in load.requests, Request(c, e) PROVE IInv'
  <2>1. e.reads \in Nat /\ e.keeps \in Nat
    BY <1>0, LoadsAssumption DEF InputInv, Endpoint
  <2>2. /\ client[c] = Idle /\ leaked' = leaked
        /\ client' = [client EXCEPT ![c].reads = e.reads, ![c].keeps = e.keeps]
    BY <1>3 DEF Request, pool
  <2>3. ~ client[c].reading
    BY <2>2, SMT DEF Idle
  <2>a. \A d \in Clients : d # c => client'[d] = client[d]
    BY <1>2, <2>2, SMT
  <2>b. client'[c].reading = client[c].reading
    BY <1>2, <2>2, SMT
  <2>c. client' \in [Clients -> R]
    <3>1. client[c] \in R
      BY <1>2
    <3>2. [client[c] EXCEPT !.reads = e.reads, !.keeps = e.keeps] \in R
      BY <2>1, <3>1
    <3>3. client' = [client EXCEPT ![c] =
                       [client[c] EXCEPT !.reads = e.reads, !.keeps = e.keeps]]
      BY <1>2, <2>2
    <3> QED
      BY <1>2, <3>2, <3>3
  <2>4. /\ client' \in [Clients -> R] /\ ~ client'[c].reading
        /\ \A d \in Clients : d # c => client'[d] = client[d]
    BY <2>3, <2>a, <2>b, <2>c
  <2> QED
    BY <1>1, <2>2, <2>4, ClientStep DEF ClientTakes
<1>4. CASE RequestReads(c)
  <2>1. /\ client[c].reads > 0 /\ Free /\ leaked' = leaked
        /\ client' = [client EXCEPT ![c].reading = TRUE]
    BY <1>4 DEF RequestReads, pool
  <2>a. \A d \in Clients : d # c => client'[d] = client[d]
    BY <1>2, <2>1, SMT
  <2>b. client'[c].reads = client[c].reads
    BY <1>2, <2>1, SMT
  <2>c. client' \in [Clients -> R]
    BY <1>2, <2>1, Zenon
  <2>2. /\ client' \in [Clients -> R] /\ client'[c].reads = client[c].reads
        /\ \A d \in Clients : d # c => client'[d] = client[d]
    BY <2>a, <2>b, <2>c
  <2> QED
    BY <1>1, <2>1, <2>2, ClientStep DEF ClientTakes
<1>5. CASE RequestKeeps(c)
  <2>1. /\ client[c].reads = 0 /\ client[c].keeps > 0 /\ Free /\ leaked' = leaked + 1
        /\ client' = [client EXCEPT ![c].keeps = @ - 1]
    BY <1>5 DEF RequestKeeps
  <2>2. ~ client[c].reading
    BY <1>2, <2>1, SMT
  <2>3. /\ client' \in [Clients -> R] /\ ~ client'[c].reading
        /\ \A d \in Clients : d # c => client'[d] = client[d]
    BY <1>2, <2>1, <2>2, SMT
  <2> QED
    BY <1>1, <2>1, <2>2, <2>3, ClientStep DEF ClientTakes
<1>6. CASE RequestEnds(c)
  <2>1. /\ client[c].reading /\ leaked' = leaked
        /\ client' = [client EXCEPT ![c].reading = FALSE, ![c].reads = @ - 1]
    BY <1>6 DEF RequestEnds, pool
  <2>2. /\ client' \in [Clients -> R] /\ ~ client'[c].reading
        /\ \A d \in Clients : d # c => client'[d] = client[d]
    BY <1>2, <2>1, SMT
  <2> QED
    BY <1>1, <2>1, <2>2, ClientStep DEF ClientTakes
<1> QED
  BY <1>3, <1>4, <1>5, <1>6

\* A process that has just started: nothing waits for anything.
FreshOK ==
    /\ (/\ fsm \in States /\ loop = 0 /\ lock = 0
        /\ \/ event = <<>> /\ bus = <<>> /\ at = <<>> /\ out = <<>>
           \/ /\ event = <<NodeStartedEvent>> /\ bus = <<1>>
              /\ at = <<"bus">> /\ out = <<NoEvent>>)
       => ControlType /\ HandlersInv /\ Sending = {}
    /\ (/\ reading = {} /\ uow = FALSE /\ leaked = 0 /\ timer = "idle"
        /\ client = [c \in Clients |-> Idle] /\ Sending = {})
       => PoolType /\ \A c \in Clients : client[c].reading => client[c].reads > 0

LEMMA FreshEmpty ==
    ASSUME fsm \in States, loop = 0, lock = 0,
           event = <<>>, bus = <<>>, at = <<>>, out = <<>>
    PROVE  ControlType /\ HandlersInv /\ Sending = {}
<1>1. event \in Seq(Event) /\ at \in Seq(PCs) /\ out \in Seq(Event) /\ Len(event) = 0
      /\ bus \in Seq(1 .. Len(event)) /\ Len(bus) = 0 /\ Len(at) = 0 /\ Len(out) = 0
      /\ DOMAIN at = {} /\ DOMAIN event = {}
  BY SMT
<1>2. 0 \in 0 .. 0 /\ 0 <= BusSize
  BY Numbers, SMT
<1> QED
  BY <1>1, <1>2 DEF ControlType, HandlersInv, Sending

LEMMA FreshStarted ==
    ASSUME fsm \in States, loop = 0, lock = 0, event = <<NodeStartedEvent>>,
           bus = << 1 >>, at = <<"bus">>, out = <<NoEvent>>
    PROVE  ControlType /\ HandlersInv /\ Sending = {}
<1>1. "bus" \in PCs /\ NodeStartedEvent \in Event /\ NoEvent \in Event
  BY EventTypes DEF PCs
<1>2. event \in Seq(Event) /\ out \in Seq(Event) /\ Len(event) = 1 /\ Len(out) = 1
      /\ DOMAIN event = {1} /\ event[1] = NodeStartedEvent
  BY <1>1, SMT
<1>3. at \in Seq(PCs) /\ Len(at) = 1 /\ DOMAIN at = {1} /\ at[1] = "bus"
  BY <1>1, SMT
<1>4. bus \in Seq(1 .. 1) /\ Len(bus) = 1 /\ 0 \in 0 .. 1 /\ 1 <= BusSize
  BY Numbers, SMT
<1>5. ControlType
  BY <1>2, <1>3, <1>4 DEF ControlType
<1>6. EventOK(NodeStartedEvent)
  BY EventTypes DEF EventOK, Kinds
<1>7. HandlersInv
  BY <1>2, <1>3, <1>6 DEF HandlersInv, HandlerOK, Critical, Held
<1> QED
  BY <1>3, <1>5, <1>7 DEF Sending

LEMMA FreshPool ==
    ASSUME reading = {}, uow = FALSE, leaked = 0, timer = "idle",
           client = [c \in Clients |-> Idle], Sending = {}
    PROVE  PoolType /\ \A c \in Clients : client[c].reading => client[c].reads > 0
<1>1. \A c \in Clients : ~ client[c].reading
  BY DEF Idle
<1>2. Asking = {} /\ OfWork = 0 /\ OfTimer = 0
  BY <1>1 DEF Asking, OfWork, OfTimer
<1>3. Cardinality({}) = 0
  BY FS_EmptySet
<1>4. InUse <= MaxConns
  BY <1>2, <1>3, InUseSum, Numbers, SMT
<1>5. 0 \in Nat
  BY SMT
<1>6. Idle \in [reads : Nat, keeps : Nat, reading : BOOLEAN]
  BY <1>5 DEF Idle
<1> QED
  BY <1>1, <1>4, <1>5, <1>6 DEF PoolType

LEMMA FreshProcess == FreshOK
BY FreshEmpty, FreshStarted, FreshPool DEF FreshOK

LEMMA RestartStep ==
    ASSUME IInv, Restart
    PROVE  IInv'
<1>0. ControlType /\ PoolType /\ HandlersInv /\ InputInv /\ ChainInv
  BY IInvParts
<1>1. /\ fsm' = "Stopped" /\ event' = <<NodeStartedEvent>>
      /\ bus' = <<1>> /\ at' = <<"bus">> /\ out' = <<NoEvent>> /\ loop' = 0 /\ lock' = 0
      /\ reading' = {} /\ uow' = FALSE /\ leaked' = 0
      /\ timer' = "idle" /\ client' = [c \in Clients |-> Idle]
      /\ metadata' = 0 /\ blocks' = 0
      /\ stored' = IF committed = 1 THEN {0} ELSE stored
      /\ height' = IF committed = 1 THEN 0 ELSE committed
      /\ UNCHANGED <<load, committed, replies, received>>
  BY DEF Restart
<1>2. fsm' \in States
  BY <1>1 DEF States
<1>a. FreshOK'
  BY FreshProcess, PTL
<1>3. ControlType' /\ HandlersInv' /\ (Sending = {})'
  BY <1>1, <1>2, <1>a DEF FreshOK
<1>4. PoolType' /\ (\A c \in Clients : client[c].reading => client[c].reads > 0)'
  BY <1>1, <1>3, <1>a DEF FreshOK
<1>5. InputInv'
  BY <1>0, <1>1, <1>4 DEF InputInv
<1>6. 0 \in 0 .. ChannelSize
  BY Numbers, SMT
<1>7. committed \in 0 .. MaxHeight + 1 /\ committed # 0
  BY <1>0, SMT DEF ChainInv, ChainType
<1>8. ChainInv'
  <2>1. CASE committed = 1
    BY <1>0, <1>1, <1>6, <2>1, Numbers
       DEF ChainInv, ChainType, WorksAboveCommitted, StoreInv
  <2>2. CASE committed # 1
    BY <1>0, <1>1, <1>6, <1>7, <2>2
       DEF ChainInv, ChainType, WorksAboveCommitted, StoreInv
  <2> QED
    BY <2>1, <2>2
<1> QED
  BY <1>3, <1>4, <1>5, <1>8, IInvParts

-----------------------------------------------------------------------------
(* The invariant holds *)

LEMMA InitIInv ==
    ASSUME Init
    PROVE  IInv
<1>1. /\ load \in Loads /\ loop = 0 /\ lock = 0
      /\ reading = {} /\ uow = FALSE /\ leaked = 0
      /\ metadata = 0 /\ blocks = 0 /\ height = load.height /\ replies = {}
      /\ committed = IF height = 0 THEN 1 ELSE height
      /\ stored = 0 .. committed - 1
      /\ timer = "idle" /\ client = [c \in Clients |-> Idle] /\ received = 0
  BY DEF Init
<1>2. /\ fsm \in States
      /\ \/ event = <<>> /\ bus = <<>> /\ at = <<>> /\ out = <<>>
         \/ /\ event = <<NodeStartedEvent>> /\ bus = <<1>>
            /\ at = <<"bus">> /\ out = <<NoEvent>>
  BY DEF Init, States
<1>3. ControlType /\ HandlersInv /\ Sending = {}
  BY <1>1, <1>2, FreshProcess DEF FreshOK
<1>4. PoolType /\ \A c \in Clients : client[c].reading => client[c].reads > 0
  BY <1>1, <1>3, FreshProcess DEF FreshOK
<1>5. InputInv
  <2>1. 0 \in Nat
    BY SMT
  <2> QED
    BY <1>1, <1>4, <2>1 DEF InputInv
<1>6. height \in 0 .. MaxHeight + 1
  BY <1>1, LoadsAssumption
<1>7. /\ committed \in 1 .. MaxHeight + 1
      /\ stored \subseteq 0 .. MaxHeight
      /\ height = 0 => stored \subseteq {0}
      /\ 0 \in 0 .. ChannelSize
  BY <1>1, <1>6, Numbers, SMT
<1>8. ChainInv
  BY <1>1, <1>6, <1>7 DEF ChainInv, ChainType, WorksAboveCommitted, StoreInv
<1> QED
  BY <1>3, <1>4, <1>5, <1>8, IInvParts

LEMMA HandleStep ==
    ASSUME IInv, NEW i \in DOMAIN at, Handle(i)
    PROVE  IInv'
BY LockStep, UnlockStep, PublishStep, ReadBeginsStep, ReadEndsStep, TransitionSteps,
   ShouldHandleMessageStep, RefreshStep, NewUnitOfWorkStep, StoreBlockStep,
   CommitBlockStep, PlainSteps, SendMetadataStep, MetadataSentStep,
   GetBlockRequestStep, ResponseStep, TriggerNextViewStep, ResetToGenesisStep
   DEF Handle

LEMMA NextIInv ==
    ASSUME IInv, [Next]_vars
    PROVE  IInv'
<1>1. CASE Progress
  BY <1>1, TakeEventStep, LoopSteps, HandleStep, TimerSteps, ClientSteps DEF Progress
<1>2. CASE TimerFires \/ Receive \/ Restart
  BY <1>2, TimerSteps, ReceiveStep, RestartStep
<1>3. CASE \E c \in Clients, r \in load.requests : Request(c, r)
  BY <1>3, ClientSteps
<1>4. CASE UNCHANGED vars
  BY <1>4, LoopSteps
<1> QED
  BY <1>1, <1>2, <1>3, <1>4 DEF Next

\* Only the two answers of state sync tell others about blocks.
LEMMA RepliesStep ==
    ASSUME IInv, [Next]_vars
    PROVE  \A h \in replies' \ replies : h < committed
<1>1. ASSUME NEW i \in DOMAIN at, SendMetadata(i)
      PROVE  \A h \in replies' \ replies : h < committed
  <2>1. replies' \ replies \subseteq {committed - 1}
    BY <1>1, SendMetadataStep
  <2>2. committed - 1 < committed
    BY IInvParts, SMT DEF ChainInv, ChainType
  <2> QED
    BY <2>1, <2>2
<1>2. ASSUME NEW i \in DOMAIN at, GetBlockRequest(i)
      PROVE  \A h \in replies' \ replies : h < committed
  BY <1>2, GetBlockRequestStep
<1>3. ASSUME NEW i \in DOMAIN at, Handle(i), ~ SendMetadata(i), ~ GetBlockRequest(i)
      PROVE  replies' = replies
  BY <1>3 DEF Handle, Lock, Unlock, Publish, ReadBegins, ReadEnds, Fire, HandleTransition,
     ShouldHandleMessage, RefreshUOW, NewUnitOfWork, StoreBlock, CommitBlock,
     MetadataRequest, MetadataSent, Response, TriggerNextView, ResetToGenesis,
     SendRequests, idle, chain
<1>4. CASE /\ ~ \E i \in DOMAIN at : Handle(i)
  <2>1. replies' = replies
    BY <1>4 DEF Next, Progress, TakeEvent, HandlerDone, Timeout, TimerBroadcasts,
       RequestReads, RequestKeeps, RequestEnds, TimerFires, Receive, Restart, Request,
       vars, idle, chain
  <2> QED
    BY <2>1
<1> QED
  BY <1>1, <1>2, <1>3, <1>4

LEMMA IInvHolds == Spec => []IInv
<1>1. Init => IInv
  BY InitIInv
<1>2. IInv /\ [Next]_vars => IInv'
  BY NextIInv
<1>3. Spec => Init /\ [][Next]_vars
  BY PTL DEF Spec
<1> QED
  BY <1>1, <1>2, <1>3, PTL

\* However many handlers the loop leaves behind, whoever waits for the pool
\* and whatever comes in: the pool lends no connection that it does not have,
\* the bus and the channels of state sync stay within their buffers, and the
\* heights of consensus, SQL and block store within their range.
THEOREM TypeCorrect == Spec => []TypeOK
<1>1. IInv => TypeOK
  BY DEF IInv
<1> QED
  BY <1>1, IInvHolds, PTL

\* Consensus works on the block after the last one that SQL has, or on
\* genesis: through commits that the timer makes fail, a commit that SQL
\* refuses, next views and resets on request, and restarts at any point.
THEOREM AlwaysAboveCommitted == Spec => []WorksAboveCommitted
<1>1. IInv => WorksAboveCommitted
  BY DEF IInv
<1> QED
  BY <1>1, IInvHolds, PTL

\* State sync tells others about committed blocks only, also when the block
\* store has one more than SQL and when the height before is the largest word.
THEOREM OnlyCommittedServed == Spec => ServesCommitted
<1>1. IInv /\ [Next]_vars => [\A h \in replies' \ replies : h < committed]_vars
  BY RepliesStep
<1>2. Spec => Init /\ [][Next]_vars
  BY PTL DEF Spec
<1> QED
  BY <1>1, <1>2, IInvHolds, PTL DEF ServesCommitted

=============================================================================
