--------------------------------- MODULE Node ---------------------------------
(***************************************************************************)
(* One node as its event loop sees it (shared/node.go): the bus, the state *)
(* machine, the lock of the consensus module, the connections of the       *)
(* database pool, the channels of the state sync, and the goroutines that  *)
(* wait for each other over them: event handlers, the round timer and the  *)
(* requests of RPC clients.  What consensus decides is in HotPOKT and how  *)
(* a block is written in Persistence; here only what is waited for counts. *)
(*                                                                         *)
(* Events are numbered in the order in which they reach the bus; `at[i]'   *)
(* is where the handler of event i is.                                     *)
(***************************************************************************)
EXTENDS Integers, Sequences, FiniteSets

CONSTANTS
    BusSize,        \* buffer of the bus (DefaultBusBufferSize)
    MaxConns,       \* connections in the pool (max_conns_count)
    ChannelSize,    \* buffer of metadataReceived and of blocksReceived
    ServerMode,     \* serverModeEnabled
    Word,           \* heights are unsigned words
    MaxHeight,      \* bound: heights that consensus reaches
    MaxPerPage,     \* maxPerPage of the RPC server
    Clients,        \* RPC clients
    Loads           \* what may come in: the events that others send, in
                    \* order (`inputs'), RPC `requests' (at most `calls'),
                    \* bounds on round `timeouts' and `crashes'; whether
                    \* the node is `bootstrapped', and its `height'

VARIABLES
    load,           \* what comes in: never changes
    fsm,            \* state of the state machine
    event,          \* events so far
    bus,            \* numbers of the events in the channel
    at,             \* where the handler of each event is
    out,            \* what a handler is about to publish
    loop,           \* event the main loop waits for; 0: none
    lock,           \* handler that holds the mutex of consensus; 0: none
    reading,        \* handlers that hold a connection to read
    uow,            \* the unit of work is open: it holds two connections
    leaked,         \* connections that nobody will release
    metadata,       \* responses in metadataReceived
    blocks,         \* responses in blocksReceived
    height,         \* CurrentHeight of consensus
    committed,      \* blocks in the SQL database
    stored,         \* heights in the block store
    replies,        \* heights that state sync has told others about
    timer,          \* where the goroutine of the round timer is
    client,         \* what the request of each client still has to do
    received, called, timedOut, crashed

chain    == <<height, committed, stored, replies>>
pool     == <<reading, uow, leaked>>
channels == <<metadata, blocks>>
bounds   == <<received, called, timedOut, crashed>>
handlers == <<event, bus, at, out, loop, lock>>
vars == <<load, fsm, handlers, pool, channels, chain, timer, client, bounds>>

ASSUME NodeAssumption ==
    /\ BusSize \in Nat \ {0} /\ ChannelSize \in Nat \ {0}
    /\ MaxConns \in Nat /\ MaxConns >= 4
    /\ ServerMode \in BOOLEAN
    /\ MaxHeight \in Nat /\ Word \in Nat /\ Word > MaxHeight + 1

-----------------------------------------------------------------------------
(* The state machine (state_machine/fsm.go) *)

States == {"Stopped", "P2P_Bootstrapping", "P2P_Bootstrapped", "Unsynced",
           "SyncMode", "Synced", "Pacemaker"}

Transitions ==
    {<<"Start", "Stopped", "P2P_Bootstrapping">>,
     <<"P2P_IsBootstrapped", "P2P_Bootstrapping", "P2P_Bootstrapped">>,
     <<"IsUnsynced", "P2P_Bootstrapped", "Unsynced">>,
     <<"IsUnsynced", "Synced", "Unsynced">>,
     <<"IsUnsynced", "Pacemaker", "Unsynced">>,
     <<"IsSyncing", "Unsynced", "SyncMode">>,
     <<"IsSyncedValidator", "SyncMode", "Pacemaker">>,
     <<"IsSyncedNonValidator", "SyncMode", "Synced">>}

\* Events.  `h' is the height in a message of consensus or of state sync, `to'
\* the new state of a transition.
HotstuffKinds == {"newround", "decide"}
StateSyncKinds == {"metareq", "blockreq", "metares", "blockres"}
DebugKinds == {"nextview", "reset", "syncreq"}

Kinds == {"started", "transition", "newheight", "tx"}
         \cup HotstuffKinds \cup StateSyncKinds \cup DebugKinds

Event == [kind : Kinds \cup {"none"}, h : 0 .. MaxHeight + 1, to : States]

Message(kind, h) == [kind |-> kind, h |-> h, to |-> "Stopped"]
Transition(to) == [kind |-> "transition", h |-> 0, to |-> to]
NodeStartedEvent == Message("started", 0)
NewHeightEvent == Message("newheight", 0)
NoEvent == Message("none", 0)

\* The events whose handlers hold the lock of the consensus module
Locking == {"transition"} \cup HotstuffKinds \cup StateSyncKinds \cup DebugKinds

-----------------------------------------------------------------------------
(* What handlers wait for *)

Goto(i, pc) == at' = [at EXCEPT ![i] = pc]
Handling(i, pc) == i \in DOMAIN at /\ at[i] = pc
Locked(i, kinds) == Handling(i, "locked") /\ event[i].kind \in kinds
Unlocking(i) == IF lock = i THEN "unlock" ELSE "done"

\* Connections in use: the read and the write context of the unit of work, one
\* for each other read context, and a second one for a handler that sends
\* while it reads.
InUse == leaked
         + (IF uow THEN 2 ELSE 0)
         + Cardinality(reading)
         + Cardinality({i \in DOMAIN at : at[i] = "sending"})
         + (IF timer = "reading" THEN 1 ELSE 0)
         + Cardinality({c \in Clients : client[c].reading})

\* connectToPool waits for a connection.
Free == InUse < MaxConns

\* PublishEventToBus: the sender waits while the channel is full.
Enqueue(e) ==
    /\ Len(bus) < BusSize
    /\ event' = Append(event, e)
    /\ bus' = Append(bus, Len(event'))

\* SendEvent of handler i: an event that the present state does not have is
\* an error; otherwise the state changes, then enter_state publishes it.
SendEvent(i, e) ==
    LET to == {t[3] : t \in {u \in Transitions : u[1] = e /\ u[2] = fsm}}
    IN  IF to = {}
        THEN Goto(i, Unlocking(i)) /\ UNCHANGED <<fsm, out>>
        ELSE /\ fsm' \in to
             /\ out' = [out EXCEPT ![i] = Transition(fsm')]
             /\ Goto(i, "publish")

-----------------------------------------------------------------------------
(* The main loop *)

idle == <<load, fsm, pool, channels, chain, timer, client, bounds>>

\* Mutant: the loop waits for the handler and nothing else.
TimeoutNever ==
    /\ loop # 0 /\ at[loop] = "done"
    /\ loop' = 0
    /\ UNCHANGED <<idle, event, bus, at, out, lock>>

\* eventHandlingTimeout: the handler goes on, next to the one of the event
\* that the loop takes next.
Timeout ==
    /\ loop # 0
    /\ loop' = 0
    /\ UNCHANGED <<idle, event, bus, at, out, lock>>

\* The handler has returned, and cancels what the loop waits for.
HandlerDone ==
    /\ loop # 0 /\ at[loop] = "done"
    /\ loop' = 0
    /\ UNCHANGED <<idle, event, bus, at, out, lock>>

\* GetBusEvent, then handleEvent.  The lock is for what goes to consensus.
TakeEvent ==
    /\ loop = 0 /\ bus # <<>>
    /\ LET i == Head(bus)
           kind == event[i].kind
       IN  /\ loop' = i
           /\ Goto(i, CASE kind \in Locking   -> "lock"
                        [] kind = "started"   -> "fire"
                        [] kind = "newheight" -> "staked"
                        [] kind = "tx"        -> "done")
    /\ bus' = Tail(bus)
    /\ UNCHANGED <<idle, event, out, lock>>

Lock(i) ==
    /\ Handling(i, "lock") /\ lock = 0
    /\ lock' = i
    /\ Goto(i, "locked")
    /\ UNCHANGED <<idle, event, bus, out, loop>>

\* p2p.HandleEvent follows consensus.HandleEvent for a transition.
Unlock(i) ==
    /\ Handling(i, "unlock")
    /\ lock' = 0
    /\ Goto(i, IF event[i] = Transition("P2P_Bootstrapping")
               THEN "staked" ELSE "done")
    /\ UNCHANGED <<idle, event, bus, out, loop>>

\* What was to be published is on the bus.  NewHeight then starts a view.
Publish(i) ==
    /\ Handling(i, "publish")
    /\ Enqueue(out[i])
    /\ LET next == IF out[i] = NewHeightEvent /\ event[i].kind # "reset"
                   THEN "broadcast" ELSE Unlocking(i)
       IN  at' = Append([at EXCEPT ![i] = next], "bus")
    /\ out' = Append([out EXCEPT ![i] = NoEvent], NoEvent)
    /\ UNCHANGED <<idle, loop, lock>>

-----------------------------------------------------------------------------
(* Reads of the validators: one connection, for as long as they take *)

\* isStakedActor of p2p, GetStakedPeerstoreAtHeight of the new height, the
\* validators that consensus elects a leader from, checks signatures against
\* or sends to, and the metadata of state sync.
Reads == {"staked", "peerstore", "validators", "broadcast", "metadata"}

ReadBegins(i) ==
    /\ i \in DOMAIN at \ reading /\ at[i] \in Reads
    /\ Free
    /\ reading' = reading \cup {i}
    /\ UNCHANGED <<load, fsm, handlers, uow, leaked, channels, chain, timer,
                   client, bounds>>

\* An actor that is not staked has no peers to update.
ReadEnds(i) ==
    /\ i \in reading /\ at[i] \in Reads \ {"metadata"}
    /\ reading' = reading \ {i}
    /\ CASE at[i] = "broadcast" -> Goto(i, "unlock")
         [] at[i] = "peerstore" -> Goto(i, "done")
         [] at[i] = "staked" /\ event[i].kind = "newheight" ->
                Goto(i, "peerstore") \/ Goto(i, "done")
         [] at[i] = "staked" /\ event[i].kind = "transition" -> Goto(i, "fire")
         [] at[i] = "validators" /\ event[i].kind = "newround" ->
                Goto(i, "refresh")
         [] at[i] = "validators" /\ event[i].kind = "decide" -> Goto(i, "store")
    /\ UNCHANGED <<load, fsm, event, bus, out, loop, lock, uow, leaked,
                   channels, chain, timer, client, bounds>>

-----------------------------------------------------------------------------
(* Transitions of the state machine *)

\* The node has started, or p2p has nothing left to bootstrap.
Fire(i) ==
    /\ Handling(i, "fire")
    /\ SendEvent(i, IF event[i].kind = "started" THEN "Start"
                    ELSE "P2P_IsBootstrapped")
    /\ UNCHANGED <<load, event, bus, loop, lock, pool, channels, chain, timer,
                   client, bounds>>

\* Mutant: nothing follows when the node is found to be behind.
HandleNothing(i) ==
    /\ Locked(i, {"transition"})
    /\ Goto(i, "unlock")
    /\ UNCHANGED <<idle, event, bus, out, loop, lock>>

\* handleStateTransitionEvent: HandleUnsynced sends the next event.  The
\* state sync that HandleSyncMode starts does nothing.
HandleTransition(i) ==
    /\ Locked(i, {"transition"})
    /\ IF event[i].to = "Unsynced"
       THEN SendEvent(i, "IsSyncing")
       ELSE Goto(i, "unlock") /\ UNCHANGED <<fsm, out>>
    /\ UNCHANGED <<load, event, bus, loop, lock, pool, channels, chain, timer,
                   client, bounds>>

-----------------------------------------------------------------------------
(* Messages of consensus *)

\* ShouldHandleMessage: a message from the past is dropped, one from a later
\* height says that this node is behind.
ShouldHandleMessage(i) ==
    /\ Locked(i, {"newround", "decide"})
    /\ CASE event[i].h < height -> Goto(i, "unlock") /\ UNCHANGED <<fsm, out>>
         [] event[i].h > height -> SendEvent(i, "IsUnsynced")
         [] event[i].h = height ->
                Goto(i, "validators") /\ UNCHANGED <<fsm, out>>
    /\ UNCHANGED <<load, event, bus, loop, lock, pool, channels, chain, timer,
                   client, bounds>>

\* refreshUtilityUnitOfWork: the old unit of work is released, ...
RefreshUOW(i) ==
    /\ Handling(i, "refresh")
    /\ uow' = FALSE
    /\ Goto(i, "work")
    /\ UNCHANGED <<load, fsm, event, bus, out, loop, lock, reading, leaked,
                   channels, chain, timer, client, bounds>>

\* ... then NewUnitOfWork waits for a connection to read, and with that one
\* in its hands for a connection to write.
NewUnitOfWork(i) ==
    /\ Free
    /\ \/ /\ Handling(i, "work") /\ Goto(i, "write")
          /\ reading' = reading \cup {i} /\ UNCHANGED uow
       \/ /\ Handling(i, "write") /\ Goto(i, "unlock")
          /\ reading' = reading \ {i} /\ uow' = TRUE
    /\ UNCHANGED <<load, fsm, event, bus, out, loop, lock, leaked, channels,
                   chain, timer, client, bounds>>

\* commitBlock without a unit of work fails: the round is interrupted.
\* Otherwise the block is stored, ...
StoreBlock(i) ==
    /\ Handling(i, "store")
    /\ IF uow
       THEN stored' = stored \cup {height} /\ Goto(i, "commit")
       ELSE Goto(i, "broadcast") /\ UNCHANGED stored
    /\ UNCHANGED <<load, fsm, event, bus, out, loop, lock, pool, channels,
                   height, committed, replies, timer, client, bounds>>

\* Mutant: the height advances whether or not the block was committed.
CommitBlockAnyway(i) ==
    /\ Handling(i, "commit")
    /\ committed' = IF uow THEN committed + 1 ELSE committed
    /\ height' = height + 1
    /\ uow' = FALSE
    /\ out' = [out EXCEPT ![i] = NewHeightEvent]
    /\ Goto(i, "publish")
    /\ UNCHANGED <<load, fsm, event, bus, loop, lock, reading, leaked,
                   channels, stored, replies, timer, client, bounds>>

\* ... then committed, unless the timer has released the unit of work since,
\* or SQL has a block of this height: heights are the primary key of blocks,
\* and one decided at height 0 meets genesis.  Either fails and the round is
\* interrupted.  NewHeight publishes the new height.
CommitBlock(i) ==
    /\ Handling(i, "commit")
    /\ IF uow /\ ~ height < committed
       THEN /\ committed' = committed + 1
            /\ height' = height + 1
            /\ out' = [out EXCEPT ![i] = NewHeightEvent]
            /\ Goto(i, "publish")
       ELSE Goto(i, "broadcast") /\ UNCHANGED <<committed, height, out>>
    /\ uow' = FALSE
    /\ UNCHANGED <<load, fsm, event, bus, loop, lock, reading, leaked,
                   channels, stored, replies, timer, client, bounds>>

-----------------------------------------------------------------------------
(* State sync *)

\* HandleStateSyncMetadataRequest: the answer has the highest block; it is
\* sent, which takes a connection, before the one to read is released.
MetadataRequest(i) ==
    /\ Locked(i, {"metareq"})
    /\ Goto(i, IF ServerMode THEN "metadata" ELSE "unlock")
    /\ UNCHANGED <<idle, event, bus, out, loop, lock>>

\* Mutant: the highest block is taken to be the one before the height.
SendMetadataBefore(i) ==
    /\ Handling(i, "metadata") /\ i \in reading
    /\ Free
    /\ replies' = replies \cup {(height + Word - 1) % Word}
    /\ Goto(i, "sending")
    /\ UNCHANGED <<load, fsm, event, bus, out, loop, lock, pool, channels,
                   height, committed, stored, timer, client, bounds>>

SendMetadata(i) ==
    /\ Handling(i, "metadata") /\ i \in reading
    /\ Free
    /\ replies' = replies \cup {committed - 1}
    /\ Goto(i, "sending")
    /\ UNCHANGED <<load, fsm, event, bus, out, loop, lock, pool, channels,
                   height, committed, stored, timer, client, bounds>>

MetadataSent(i) ==
    /\ Handling(i, "sending")
    /\ reading' = reading \ {i}
    /\ Goto(i, "unlock")
    /\ UNCHANGED <<load, fsm, event, bus, out, loop, lock, uow, leaked,
                   channels, chain, timer, client, bounds>>

\* Mutant: the block that consensus works on counts as persisted.
GetBlockOffByOne(i) ==
    /\ Locked(i, {"blockreq"})
    /\ IF ServerMode /\ ~ height < event[i].h /\ event[i].h \in stored
       THEN replies' = replies \cup {event[i].h} /\ Goto(i, "broadcast")
       ELSE Goto(i, "unlock") /\ UNCHANGED replies
    /\ UNCHANGED <<load, fsm, event, bus, out, loop, lock, pool, channels,
                   height, committed, stored, timer, client, bounds>>

\* HandleGetBlockRequest: one less than height 0 is the largest word.
GetBlockRequest(i) ==
    /\ Locked(i, {"blockreq"})
    /\ LET prevPersistedBlockHeight == (height + Word - 1) % Word
           h == event[i].h
       IN  IF ServerMode /\ ~ prevPersistedBlockHeight < h /\ h \in stored
           THEN replies' = replies \cup {h} /\ Goto(i, "broadcast")
           ELSE Goto(i, "unlock") /\ UNCHANGED replies
    /\ UNCHANGED <<load, fsm, event, bus, out, loop, lock, pool, channels,
                   height, committed, stored, timer, client, bounds>>

\* A response waits, with the lock held, for a place in a channel that
\* nobody reads: metadataSyncLoop and blockApplicationLoop are empty.
Response(i) ==
    /\ \/ /\ Locked(i, {"metares"}) /\ metadata < ChannelSize
          /\ metadata' = metadata + 1 /\ UNCHANGED blocks
       \/ /\ Locked(i, {"blockres"}) /\ blocks < ChannelSize
          /\ blocks' = blocks + 1 /\ UNCHANGED metadata
    /\ Goto(i, "unlock")
    /\ UNCHANGED <<load, fsm, event, bus, out, loop, lock, pool, chain, timer,
                   client, bounds>>

-----------------------------------------------------------------------------
(* Debug messages, with an automatic pacemaker *)

\* triggerNextView: from genesis to the first height, otherwise to the next
\* round; either releases the unit of work and starts a view.
TriggerNextView(i) ==
    /\ Locked(i, {"nextview"})
    /\ uow' = FALSE
    /\ IF height = 0
       THEN /\ height' = 1
            /\ out' = [out EXCEPT ![i] = NewHeightEvent]
            /\ Goto(i, "publish")
       ELSE Goto(i, "broadcast") /\ UNCHANGED <<height, out>>
    /\ UNCHANGED <<load, fsm, event, bus, loop, lock, reading, leaked,
                   channels, committed, stored, replies, timer, client, bounds>>

\* resetToGenesis fails while a unit of work has the write context.
ResetToGenesis(i) ==
    /\ Locked(i, {"reset"})
    /\ IF uow
       THEN Goto(i, "unlock") /\ UNCHANGED <<committed, stored, height, out>>
       ELSE /\ Free
            /\ committed' = 1 /\ stored' = {0} /\ height' = 0
            /\ out' = [out EXCEPT ![i] = NewHeightEvent]
            /\ Goto(i, "publish")
    /\ UNCHANGED <<load, fsm, event, bus, loop, lock, pool, channels, replies,
                   timer, client, bounds>>

\* The requests that a debug message has this node send to the validators
SendRequests(i) ==
    /\ Locked(i, {"syncreq"})
    /\ Goto(i, "broadcast")
    /\ UNCHANGED <<idle, event, bus, out, loop, lock>>

-----------------------------------------------------------------------------
(* The round timer and the requests of clients run without the lock *)

\* InterruptRound of the timer releases the unit of work, ...
TimerFires ==
    /\ timer = "idle" /\ timedOut < load.timeouts
    /\ timedOut' = timedOut + 1
    /\ uow' = FALSE
    /\ timer' = "broadcast"
    /\ UNCHANGED <<load, fsm, handlers, reading, leaked, channels, chain,
                   client, received, called, crashed>>

\* ... then sends the NewRound message to the validators.
TimerBroadcasts ==
    /\ \/ timer = "broadcast" /\ Free /\ timer' = "reading"
       \/ timer = "reading" /\ timer' = "idle"
    /\ UNCHANGED <<load, fsm, handlers, pool, channels, chain, client, bounds>>

\* A request takes `reads' read contexts one after the other, and `keeps'
\* that nobody releases.
Endpoint == [reads : Nat, keeps : Nat]

\* Accounts, actors, parameters, pools, sessions: one context, released on
\* every path.  Broadcasting a transaction reads who is staked, and a relay
\* is refused after one read.
Query == [reads |-> 1, keeps |-> 0]
QueryUpgrade == [reads |-> 0, keeps |-> 1]

\* getPageIndexes: positions on a page; an error shows none.
PageIndexes(totalItems, page, perPage) ==
    IF page = 0 \/ perPage = 0 \/ perPage > MaxPerPage
    THEN {}
    ELSE {i \in 0 .. totalItems - 1 : /\ (page - 1) * perPage <= i
                                      /\ i <= page * perPage - 1}

\* Each transaction that is shown takes a context to find its fee.  The
\* transactions of an account are paged first, those of a block afterwards.
AccountTxs(totalItems, page, perPage) ==
    [reads |-> 0, keeps |-> Cardinality(PageIndexes(totalItems, page, perPage))]
BlockTxs(totalItems) == [reads |-> 0, keeps |-> totalItems]

Idle == [reads |-> 0, keeps |-> 0, reading |-> FALSE]

Request(c, endpoint) ==
    /\ client[c] = Idle /\ called < load.calls
    /\ called' = called + 1
    /\ client' = [client EXCEPT ![c].reads = endpoint.reads,
                                ![c].keeps = endpoint.keeps]
    /\ UNCHANGED <<load, fsm, handlers, pool, channels, chain, timer, received,
                   timedOut, crashed>>

RequestReads(c) ==
    /\ client[c].reads > 0 /\ ~ client[c].reading /\ Free
    /\ client' = [client EXCEPT ![c].reading = TRUE]
    /\ UNCHANGED <<load, fsm, handlers, pool, channels, chain, timer, bounds>>

\* calculateMessageFeeForActor and QueryUpgrade return with the context open.
RequestKeeps(c) ==
    /\ client[c].reads = 0 /\ client[c].keeps > 0 /\ Free
    /\ client' = [client EXCEPT ![c].keeps = @ - 1]
    /\ leaked' = leaked + 1
    /\ UNCHANGED <<load, fsm, handlers, reading, uow, channels, chain, timer,
                   bounds>>

\* Mutant: the height of consensus is read under its lock.
RequestLocks(c) ==
    /\ client[c].reading /\ lock = 0
    /\ client' = [client EXCEPT ![c].reading = FALSE, ![c].reads = @ - 1]
    /\ UNCHANGED <<load, fsm, handlers, pool, channels, chain, timer, bounds>>

RequestEnds(c) ==
    /\ client[c].reading
    /\ client' = [client EXCEPT ![c].reading = FALSE, ![c].reads = @ - 1]
    /\ UNCHANGED <<load, fsm, handlers, pool, channels, chain, timer, bounds>>

-----------------------------------------------------------------------------
(* The rest of the network, and the end of the process *)

\* handlePocketEnvelope of p2p publishes what others send.
Receive ==
    /\ received < Len(load.inputs)
    /\ received' = received + 1
    /\ Enqueue(load.inputs[received'])
    /\ at' = Append(at, "bus")
    /\ out' = Append(out, NoEvent)
    /\ UNCHANGED <<load, fsm, loop, lock, pool, channels, chain, timer, client,
                   called, timedOut, crashed>>

\* The process ends and starts again from what is on disk.  A database with
\* no more than genesis is cleared, block store included; loadPersistedState
\* continues above the last block otherwise.  Start publishes its event.
Restart ==
    /\ crashed < load.crashes
    /\ crashed' = crashed + 1
    /\ fsm' = "Stopped"
    /\ event' = <<NodeStartedEvent>>
    /\ bus' = <<1>> /\ at' = <<"bus">> /\ out' = <<NoEvent>>
    /\ loop' = 0 /\ lock' = 0
    /\ reading' = {} /\ uow' = FALSE /\ leaked' = 0
    /\ metadata' = 0 /\ blocks' = 0
    /\ stored' = IF committed = 1 THEN {0} ELSE stored
    /\ height' = IF committed = 1 THEN 0 ELSE committed
    /\ timer' = "idle" /\ client' = [c \in Clients |-> Idle]
    /\ UNCHANGED <<load, committed, replies, received, called, timedOut>>

-----------------------------------------------------------------------------
\* What comes in: other nodes decide blocks up to the bound on heights.
ASSUME LoadsAssumption ==
    /\ IsFiniteSet(Clients)
    /\ \A l \in Loads :
         /\ l.inputs \in Seq([kind : Kinds, h : 0 .. MaxHeight + 1, to : States])
         /\ \A k \in DOMAIN l.inputs :
              l.inputs[k].kind = "decide" => l.inputs[k].h <= MaxHeight
         /\ l.requests \subseteq Endpoint
         /\ l.height \in 0 .. MaxHeight + 1

Init ==
    /\ load \in Loads
    /\ IF load.bootstrapped
       THEN /\ fsm = "P2P_Bootstrapped"
            /\ event = <<>> /\ bus = <<>> /\ at = <<>> /\ out = <<>>
       ELSE /\ fsm = "Stopped"
            /\ event = <<NodeStartedEvent>>
            /\ bus = <<1>> /\ at = <<"bus">> /\ out = <<NoEvent>>
    /\ loop = 0 /\ lock = 0
    /\ reading = {} /\ uow = FALSE /\ leaked = 0
    /\ metadata = 0 /\ blocks = 0
    /\ height = load.height /\ replies = {}
    /\ committed = IF height = 0 THEN 1 ELSE height
    /\ stored = 0 .. committed - 1
    /\ timer = "idle" /\ client = [c \in Clients |-> Idle]
    /\ received = 0 /\ called = 0 /\ timedOut = 0 /\ crashed = 0

\* One step of the handler of event i
Handle(i) ==
    \/ Lock(i) \/ Unlock(i) \/ Publish(i) \/ ReadBegins(i) \/ ReadEnds(i)
    \/ Fire(i) \/ HandleTransition(i)
    \/ ShouldHandleMessage(i) \/ RefreshUOW(i) \/ NewUnitOfWork(i)
    \/ StoreBlock(i) \/ CommitBlock(i)
    \/ MetadataRequest(i) \/ SendMetadata(i) \/ MetadataSent(i)
    \/ GetBlockRequest(i) \/ Response(i)
    \/ TriggerNextView(i) \/ ResetToGenesis(i) \/ SendRequests(i)

\* What the scheduler, the pool and the clock of the loop do sooner or later
Progress ==
    \/ TakeEvent \/ HandlerDone \/ Timeout
    \/ \E i \in DOMAIN at : Handle(i)
    \/ TimerBroadcasts
    \/ \E c \in Clients : RequestReads(c) \/ RequestKeeps(c) \/ RequestEnds(c)

Next ==
    \/ Progress \/ TimerFires \/ Receive \/ Restart
    \/ \E c \in Clients, r \in load.requests : Request(c, r)

\* Nothing is assumed of the round timer, of clients, or of other nodes: only
\* bounded work comes in, and what has come in is not left undone while some
\* of it can go on.
Spec == Init /\ [][Next]_vars /\ WF_vars(Progress)

-----------------------------------------------------------------------------
(* Properties *)

PCs == Reads \cup {"bus", "lock", "locked", "unlock", "publish", "fire",
                   "refresh", "work", "write", "store", "commit", "sending", "done"}

\* The pool and the channels are never over their limits, and heights stay
\* in their range.
TypeOK ==
    /\ fsm \in States
    /\ event \in Seq(Event) /\ bus \in Seq(1 .. Len(event))
    /\ at \in Seq(PCs) /\ Len(at) = Len(event)
    /\ out \in Seq(Event) /\ Len(out) = Len(event)
    /\ loop \in 0 .. Len(event) /\ lock \in 0 .. Len(event)
    /\ Len(bus) <= BusSize
    /\ reading \subseteq DOMAIN at /\ uow \in BOOLEAN
    /\ leaked \in Nat /\ InUse <= MaxConns
    /\ metadata \in 0 .. ChannelSize /\ blocks \in 0 .. ChannelSize
    /\ height \in 0 .. MaxHeight + 1 /\ committed \in 1 .. MaxHeight + 1
    /\ stored \subseteq 0 .. MaxHeight /\ replies \subseteq 0 .. MaxHeight
    /\ timer \in {"idle", "broadcast", "reading"}
    /\ client \in [Clients -> [reads : Nat, keeps : Nat, reading : BOOLEAN]]

\* Consensus works on the block after the last committed one, or on genesis:
\* through commits that the timer makes fail, debug messages and restarts.
WorksAboveCommitted == height = committed \/ (height = 0 /\ committed = 1)

\* State sync answers with blocks that are committed, also after a restart
\* or a failed commit that leaves a block in the store that SQL does not
\* have, and at height 0, where the height before is the largest word.
ServesCommitted ==
    [][\A h \in replies' \ replies : h < committed]_vars

\* The loop gets to every event on the bus, even when handlers that hold the
\* lock wait forever for a connection, a channel or the bus itself.
EventsTaken == (bus # <<>>) ~> (bus = <<>>)

\* The two of the unit of work, one to read and one to send are all the
\* connections that consensus needs at a time.
Starved == leaked > MaxConns - 4

\* The holder of the lock waits to put a response into a full channel.
Full == \/ lock # 0 /\ Locked(lock, {"metares"}) /\ metadata = ChannelSize
        \/ lock # 0 /\ Locked(lock, {"blockres"}) /\ blocks = ChannelSize

\* The lock of consensus is released again, however handlers, timer and
\* clients take connections from each other and wait for the bus, unless
\* leaked connections starve its holder or it waits for a full channel.
LockReleased == (lock # 0) ~> (lock = 0 \/ Starved \/ Full)

\* A node that finds itself behind goes on to synchronise.
UnsyncedSyncs == (fsm = "Unsynced") ~> (fsm # "Unsynced" \/ Starved \/ Full)

=============================================================================
