-------------------------------- MODULE Gossip --------------------------------
(***************************************************************************)
(* The p2p module of every node: the RainTree router of the staked actors, *)
(* the background router of everyone, the nonces that drop redundant       *)
(* messages, and the peers that a new height adds and removes.             *)
(*                                                                         *)
(* Every incoming stream has a goroutine, so what a node does about a      *)
(* message is a `call': a record that says where the call is.  A sender    *)
(* opens a stream per message and a receiver runs a call per stream, so    *)
(* messages in flight are calls that have not begun.  An address is a      *)
(* number, with the order of the addresses.                                *)
(***************************************************************************)
EXTENDS Integers, Sequences, FiniteSets, Functions

CONSTANTS
    N,              \* nodes
    MaxNonces,      \* capacity of the nonce deduper
    MaxMsgs,        \* bound: messages that are broadcast or sent
    MaxHeight,      \* bound: heights
    Networks        \* networks to check, with the bounds on each: `nodes'
                    \* that exist, validators `staked' at each height,
                    \* `top' height that each node gets to, `readers' that
                    \* the background topic reaches, number of `msgs' and
                    \* of `faults' (crashes and messages lost)

VARIABLES
    net,            \* the network: never changes
    up,             \* nodes whose p2p module is started
    router,         \* stakedActorRouter: its peerstore, view and levels
    pstore,         \* peerstore of unstakedActorRouter
    seen,           \* nonceDeduper, oldest nonce first
    bus,            \* what a node published on its bus, by nonce
    calls,          \* goroutines that handle messages and peer events
    topic,          \* messages that the background topic may still deliver
    height,         \* CurrentHeight of the consensus module
    events,         \* ConsensusNewHeightEvents on the bus
    update,         \* peers that the handler of one still adds and removes
    sent,           \* messages so far: the nonce of each is its number
    origin,         \* for each message, who broadcast it (0: sent to one)
    faults

node == <<up, router, pstore, seen, bus>>
chain == <<height, events, update>>
vars == <<net, node, calls, topic, chain, sent, origin, faults>>

Nodes == 1 .. N
Heights == 1 .. MaxHeight
Msgs == 1 .. MaxMsgs
Nil == [view |-> <<>>, peers |-> {}, levels |-> 0]
NoUpdate == [add |-> {}, remove |-> {}]

ASSUME GossipAssumption ==
    /\ N \in Nat /\ MaxNonces \in Nat \ {0} /\ MaxMsgs \in Nat
    /\ MaxHeight \in Nat \ {0}
    /\ Networks \subseteq
         [nodes : SUBSET Nodes, staked : [Heights -> SUBSET Nodes],
          top : [Nodes -> Heights], readers : SUBSET Nodes,
          msgs : 0 .. MaxMsgs, faults : Nat]

-----------------------------------------------------------------------------
(* The view of the peers: the addresses in order, from one's own onwards *)

\* sort.Search: the smallest of the indices 0 .. n - 1 at which a condition
\* is true, and n if there is none, by bisection.  It is true at those in T.
Search(n, T) ==
    LET between[b \in (0 .. n) \X (0 .. n)] ==
          LET h == (b[1] + b[2]) \div 2
          IN  IF b[1] >= b[2] THEN b[1]
              ELSE IF h \in T THEN between[<<b[1], h>>]
              ELSE between[<<h + 1, b[2]>>]
    IN  between[<<0, n>>]

\* sort.SearchStrings: where a is, or belongs, in a list that is sorted
SearchStrings(addrs, a) ==
    Search(Len(addrs), {i \in 0 .. Len(addrs) - 1 : addrs[i + 1] >= a})

\* A set of addresses as a list, sorted by sort.Strings
Sorted(S) ==
    CHOOSE s \in [1 .. Cardinality(S) -> S] :
        \A i, j \in DOMAIN s : i < j => s[i] < s[j]

sortAddrs(start, peers) ==
    LET sorted == Sorted(peers)
        i == SearchStrings(sorted, start)
    IN  SubSeq(sorted, i + 1, Len(sorted)) \o SubSeq(sorted, 1, i)

\* The place of an address, counted from 0.  What precedes the first address
\* of the view belongs behind the point where the order wraps around.
getAddrIndex(view, a) ==
    LET wrapIdx == Search(Len(view),
                     {i \in 0 .. Len(view) - 1 : view[i + 1] < view[1]})
        i == SearchStrings(SubSeq(view, 1, wrapIdx), a)
    IN  IF i # 0
        THEN i
        ELSE wrapIdx + SearchStrings(SubSeq(view, wrapIdx + 1, Len(view)), a)

insertElementAtIndex(slice, a, i) ==
    SubSeq(slice, 1, i) \o <<a>> \o SubSeq(slice, i + 1, Len(slice))

removeElementAtIndex(slice, i) ==
    SubSeq(slice, 1, i) \o SubSeq(slice, i + 2, Len(slice))

\* Mutant: the wrap-around is forgotten.
ViewAddInOrder(view, a) == insertElementAtIndex(view, a, SearchStrings(view, a))

ViewAdd(view, a) == insertElementAtIndex(view, a, getAddrIndex(view, a))

ViewRemove(view, a) ==
    LET i == getAddrIndex(view, a)
    IN  IF i = Len(view) THEN view ELSE removeElementAtIndex(view, i)

-----------------------------------------------------------------------------
(* The levels of the tree and the targets at each of them *)

\* getMaxPeerstoreLevels: the logarithm to base 3, rounded up, which is the
\* number of powers of 3 that are smaller
MaxLevels(size) == Cardinality({l \in 0 .. size \div 2 : 3 ^ l < size})

\* Two thirds of the peers are left at each level below the highest.  Above
\* it the unsigned difference of the levels is huge, and none are left.
\* (Float64 has these values exactly up to 53 peers.)
getPeerstoreSize(r, level) ==
    IF level > r.levels THEN 0
    ELSE (Len(r.view) * 2 ^ (r.levels - level)) \div 3 ^ (r.levels - level)

\* The place in the view, from 0, of the target of the k-th message of a level
targetIndex(r, k, level) == (k * getPeerstoreSize(r, level)) \div 3

\* Mutant: the addresses of the view are counted from 1.
TargetBefore(self, k, level) ==
    LET r == router[self]
        i == targetIndex(r, k, level)
        a == r.view[i]
    IN  IF i = 0 \/ a = self \/ a \notin r.peers THEN 0 ELSE a

\* Who gets that message; 0 when it is oneself, or when an address of the view
\* is not in the peerstore
getTarget(self, k, level) ==
    LET r == router[self]
        i == targetIndex(r, k, level)
        a == r.view[i + 1]
    IN  IF i = 0 \/ a = self \/ a \notin r.peers THEN 0 ELSE a

-----------------------------------------------------------------------------
(* Calls.  Several may be equal, so there is a bag of them: a function that  *)
(* gives the number of each.                                                 *)

Copies(c, bag) == IF c \in DOMAIN bag THEN bag[c] ELSE 0

SetToBag(S) == [c \in S |-> 1]

EmptyBag == SetToBag({})

a (+) b == [c \in DOMAIN a \cup DOMAIN b |-> Copies(c, a) + Copies(c, b)]

a (-) b ==
    [c \in {d \in DOMAIN a : a[d] > Copies(d, b)} |-> a[c] - Copies(c, b)]

Call == [at : Nodes, from : Nodes, nonce : 0 .. MaxMsgs, level : Nat,
         via : {"raintree", "background", "update"},
         pc : {"stream", "add", "remove", "measure", "assign", "forward",
               "check", "observe"}]

Stream(via, from, to, nonce, level) ==
    [at |-> to, from |-> from, nonce |-> nonce, level |-> level,
     via |-> via, pc |-> "stream"]

\* The unicast router of each router sets the handler of its streams.
HasHandler(via, n) == n \in up /\ (via = "raintree" => router[n] # Nil)

\* A stream that does not open is an error in the log: the message is gone.
Libp2pSendToPeer(via, from, to, nonce, level) ==
    IF HasHandler(via, to)
    THEN SetToBag({Stream(via, from, to, nonce, level)})
    ELSE EmptyBag

\* The bags are bound, so that they are evaluated once.
Replace(c, new) ==
    \E left \in {calls (-) SetToBag({c})}, more \in {new} : calls' = left (+) more

\* The call goes on at pc.
Goto(c, pc) == Replace(c, SetToBag({[c EXCEPT !.pc = pc]}))

Return(c) == Replace(c, EmptyBag)

\* GetStakedPeerstoreAtHeight of the current height
StakedPeerstore(n) == net.staked[height[n]]

IsStakedActor(n) == n \in StakedPeerstore(n)

-----------------------------------------------------------------------------
(* Starting and ending *)

\* The peer manager of a RainTree router
NewPeerManager(n, staked) ==
    [view |-> sortAddrs(n, staked), peers |-> staked,
     levels |-> MaxLevels(Cardinality(staked))]

\* setupRouters: the RainTree router exists only on a node that is staked.
NewRouter(n, staked) ==
    IF n \in staked THEN NewPeerManager(n, staked) ELSE Nil

\* The background router connects to the peers one by one, in any order,
\* until it meets itself; it fails at a peer that it cannot reach.
Bootstraps(n, staked) == n \in staked \/ staked \subseteq up

\* setupDependencies of the background router
SetupBackground(n, staked) ==
    /\ Bootstraps(n, staked)
    /\ pstore' = [pstore EXCEPT ![n] = staked]

Start(n) ==
    /\ n \in net.nodes \ up
    /\ SetupBackground(n, StakedPeerstore(n))
    /\ router' = [router EXCEPT ![n] = NewRouter(n, StakedPeerstore(n))]
    /\ up' = up \cup {n}
    /\ UNCHANGED <<seen, bus, calls, topic, chain, sent, origin, faults>>

\* The process of a node ends: what the module holds is gone.
ProcessEnds(n) ==
    /\ up' = up \ {n}
    /\ router' = [router EXCEPT ![n] = Nil]
    /\ pstore' = [pstore EXCEPT ![n] = {}]
    /\ seen' = [seen EXCEPT ![n] = <<>>]
    /\ bus' = [bus EXCEPT ![n] = <<>>]
    /\ calls' = [c \in {d \in DOMAIN calls : d.at # n} |-> calls[c]]
    /\ topic' = {t \in topic : t[2] # n}
    /\ events' = [events EXCEPT ![n] = <<>>]
    /\ update' = [update EXCEPT ![n] = NoUpdate]

Crash(n) ==
    /\ n \in up /\ faults < net.faults
    /\ faults' = faults + 1
    /\ ProcessEnds(n)
    /\ UNCHANGED <<height, sent, origin>>

-----------------------------------------------------------------------------
(* Sending *)

\* The background topic may deliver the message to anyone who is up, the
\* sender included.
PublishToTopic(k) == topic' = topic \cup ({k} \X (up \cap net.readers))

Broadcast(n) ==
    /\ n \in up /\ sent < net.msgs
    /\ IsStakedActor(n) => router[n] # Nil
    /\ sent' = sent + 1
    /\ origin' = [origin EXCEPT ![sent'] = n]
    /\ calls' = IF IsStakedActor(n)
                THEN calls (+) SetToBag(
                       {[at |-> n, from |-> n, nonce |-> sent', pc |-> "forward",
                         level |-> router[n].levels, via |-> "raintree"]})
                ELSE calls
    /\ PublishToTopic(sent')
    /\ UNCHANGED <<node, chain, faults>>

\* One level of broadcastAtLevel: both targets, then demote.  At level 0 the
\* tree ends, and a message of someone else is handled next.
Forward(c) ==
    /\ c.pc = "forward"
    /\ LET copy(k) ==
             LET to == getTarget(c.at, k, c.level)
             IN  IF to = 0 THEN EmptyBag
                 ELSE Libp2pSendToPeer("raintree", c.at, to, c.nonce, c.level)
           rest == IF c.level > 1 THEN {[c EXCEPT !.level = @ - 1]}
                   ELSE IF c.from = c.at THEN {}
                   ELSE {[c EXCEPT !.level = 0, !.pc = "check"]}
       IN  Replace(c, (IF c.level = 0 THEN EmptyBag ELSE copy(1) (+) copy(2))
                        (+) SetToBag(rest))
    /\ UNCHANGED <<node, topic, chain, sent, origin, faults>>

BackgroundSend(n, to) ==
    calls' = IF to \in pstore[n]
             THEN calls (+) Libp2pSendToPeer("background", n, to, sent', 0)
             ELSE calls

\* Send: by RainTree between staked actors, otherwise in the background.  A
\* node that was staked after it started has no RainTree router to call.
Send(n, to) ==
    /\ n \in up /\ sent < net.msgs /\ n # to
    /\ sent' = sent + 1
    /\ IF IsStakedActor(n) /\ router[n] = Nil
       THEN ProcessEnds(n) /\ UNCHANGED height
       ELSE /\ IF IsStakedActor(n) /\ to \in router[n].peers
               THEN calls' = calls (+)
                      Libp2pSendToPeer("raintree", n, to, sent', 0)
               ELSE BackgroundSend(n, to)
            /\ UNCHANGED <<node, topic, chain>>
    /\ UNCHANGED <<origin, faults>>

Lose(c) ==
    /\ c.pc = "stream" /\ faults < net.faults
    /\ faults' = faults + 1
    /\ Return(c)
    /\ UNCHANGED <<node, topic, chain, sent, origin>>

-----------------------------------------------------------------------------
(* Receiving *)

\* Mutant: the level is lowered without a look at whether it is 0.
HandleStreamUnderflow(c) ==
    /\ c.pc = "stream"
    /\ Replace(c, SetToBag({[c EXCEPT !.level = @ - 1, !.pc = "check"]}))
    /\ UNCHANGED <<node, topic, chain, sent, origin, faults>>

\* handleRainTreeMsg: broadcast one level below that of the message, then
\* handle it.  At the levels 0 and 1 there is no level below.
Demoted(c) ==
    [c EXCEPT !.pc = IF c.level > 1 THEN "forward" ELSE "check",
              !.level = IF @ > 0 THEN @ - 1 ELSE 0]

\* handleStream: AddPeer looks the sender up.
HandleStream(c) ==
    /\ c.pc = "stream"
    /\ LET n == c.at
           known == IF c.via = "raintree" THEN router[n].peers ELSE pstore[n]
       IN  Replace(c, SetToBag(
             {IF c.from \in known THEN Demoted(c)
              ELSE [Demoted(c) EXCEPT !.pc = "add"]}))
    /\ UNCHANGED <<node, topic, chain, sent, origin, faults>>

\* The goroutine of the peer manager: the peerstore refuses a peer it has,
\* the view does not.
AddPeer(c) ==
    /\ c.pc = "add" /\ c.via # "background"
    /\ router' = [router EXCEPT ![c.at].peers = @ \cup {c.from},
                                ![c.at].view = ViewAdd(@, c.from)]
    /\ Goto(c, "measure")
    /\ UNCHANGED <<up, pstore, seen, bus, topic, chain, sent, origin, faults>>

BackgroundAddPeer(c) ==
    /\ c.pc = "add" /\ c.via = "background"
    /\ pstore' = [pstore EXCEPT ![c.at] = @ \cup {c.from}]
    /\ Goto(c, "check")
    /\ UNCHANGED <<up, router, seen, bus, topic, chain, sent, origin, faults>>

RemovePeer(c) ==
    /\ c.pc = "remove"
    /\ router' = [router EXCEPT ![c.at].peers = @ \ {c.from},
                                ![c.at].view = ViewRemove(@, c.from)]
    /\ Goto(c, "measure")
    /\ UNCHANGED <<up, pstore, seen, bus, topic, chain, sent, origin, faults>>

\* updateMaxNumLevels holds no lock: between the reading of the size and the
\* assignment another call may do both.  `level' is free in an update, and
\* is kept for a message in the part of it above the levels.
Levels == 0 .. MaxLevels(N)
Base == MaxLevels(N) + 1

Measure(c) ==
    /\ c.pc = "measure"
    /\ Replace(c, SetToBag({[c EXCEPT !.pc = "assign",
            !.level = @ + Base * MaxLevels(Cardinality(router[c.at].peers))]}))
    /\ UNCHANGED <<node, topic, chain, sent, origin, faults>>

Assign(c) ==
    /\ c.pc = "assign"
    /\ router' = [router EXCEPT ![c.at].levels = c.level \div Base]
    /\ IF c.via = "update" THEN Return(c)
       ELSE Replace(c, SetToBag({[c EXCEPT !.pc = "forward",
                                           !.level = @ % Base]}))
    /\ UNCHANGED <<up, pstore, seen, bus, topic, chain, sent, origin, faults>>

\* readSubscription: one message of the topic after the other
ReadSubscription(n, k) ==
    /\ n \in up /\ <<k, n>> \in topic
    /\ ~ \E c \in DOMAIN calls : c.at = n /\ c.via = "background" /\ c.from = n
    /\ topic' = topic \ {<<k, n>>}
    /\ calls' = calls (+) SetToBag(
         {[at |-> n, from |-> n, nonce |-> k, level |-> 0,
           via |-> "background", pc |-> "check"]})
    /\ UNCHANGED <<node, chain, sent, origin, faults>>

Deduped(n) == Range(seen[n])

\* handlePocketEnvelope: isNonceAlreadyObserved, ...
Check(c) ==
    /\ c.pc = "check"
    /\ IF c.nonce \in Deduped(c.at) THEN Return(c) ELSE Goto(c, "observe")
    /\ UNCHANGED <<node, topic, chain, sent, origin, faults>>

\* Mutant: a nonce that another call has pushed meanwhile is no error.
ObserveAnyway(c) ==
    /\ c.pc = "observe"
    /\ LET pushed == Append(seen[c.at], c.nonce)
       IN  seen' = [seen EXCEPT ![c.at] =
                      IF Len(pushed) > MaxNonces THEN Tail(pushed) ELSE pushed]
    /\ bus' = [bus EXCEPT ![c.at] = Append(@, c.nonce)]
    /\ Return(c)
    /\ UNCHANGED <<up, router, pstore, topic, chain, sent, origin, faults>>

\* ... then observeNonce, which fails on a nonce that another call has
\* pushed meanwhile, then PublishEventToBus.
Observe(c) ==
    /\ c.pc = "observe"
    /\ IF c.nonce \in Deduped(c.at)
       THEN UNCHANGED <<seen, bus>>
       ELSE LET pushed == Append(seen[c.at], c.nonce)
            IN  /\ seen' = [seen EXCEPT ![c.at] =
                     IF Len(pushed) > MaxNonces THEN Tail(pushed) ELSE pushed]
                /\ bus' = [bus EXCEPT ![c.at] = Append(@, c.nonce)]
    /\ Return(c)
    /\ UNCHANGED <<up, router, pstore, topic, chain, sent, origin, faults>>

-----------------------------------------------------------------------------
(* New heights *)

NewHeight(n) ==
    /\ n \in up /\ height[n] < net.top[n]
    /\ height' = [height EXCEPT ![n] = @ + 1]
    /\ events' = [events EXCEPT ![n] = Append(@, height'[n])]
    /\ UNCHANGED <<node, calls, topic, update, sent, origin, faults>>

Updating(n) ==
    \/ update[n] # NoUpdate
    \/ \E c \in DOMAIN calls : c.at = n /\ c.via = "update"

\* HandleEvent of a ConsensusNewHeightEvent: whether the node is staked is a
\* question to the present height, the peers are those of the event's.
HandleNewHeight(n) ==
    /\ n \in up /\ events[n] # <<>> /\ ~ Updating(n)
    /\ IF IsStakedActor(n) /\ router[n] = Nil
       THEN ProcessEnds(n) /\ UNCHANGED height
       ELSE /\ events' = [events EXCEPT ![n] = Tail(@)]
            /\ LET old == router[n].peers
                   new == net.staked[Head(events[n])]
               IN  update' = [update EXCEPT ![n] =
                     IF IsStakedActor(n)
                     THEN [add |-> new \ old, remove |-> old \ new]
                     ELSE NoUpdate]
            /\ UNCHANGED <<node, calls, topic, height>>
    /\ UNCHANGED <<sent, origin, faults>>

UpdateCall(n, p, pc) ==
    calls' = calls (+) SetToBag(
      {[at |-> n, from |-> p, nonce |-> 0, level |-> 0, via |-> "update",
        pc |-> pc]})

\* The next peer of Delta: those added first, then those removed.  AddPeer
\* looks again whether the peer is there.
UpdatePeer(n, p) ==
    /\ ~ \E c \in DOMAIN calls : c.at = n /\ c.via = "update"
    /\ \/ /\ p \in update[n].add
          /\ update' = [update EXCEPT ![n].add = @ \ {p}]
          /\ IF p \in router[n].peers
             THEN UNCHANGED calls
             ELSE UpdateCall(n, p, "add")
       \/ /\ update[n].add = {} /\ p \in update[n].remove
          /\ update' = [update EXCEPT ![n].remove = @ \ {p}]
          /\ UpdateCall(n, p, "remove")
    /\ UNCHANGED <<node, topic, height, events, sent, origin, faults>>

-----------------------------------------------------------------------------
\* Every node has started at the first height.
Init ==
    /\ net \in Networks
    /\ up = net.nodes
    /\ router = [n \in Nodes |-> NewRouter(n, net.staked[1])]
    /\ pstore = [n \in Nodes |-> net.staked[1]]
    /\ seen = [n \in Nodes |-> <<>>]
    /\ bus = [n \in Nodes |-> <<>>]
    /\ calls = EmptyBag
    /\ topic = {}
    /\ height = [n \in Nodes |-> 1]
    /\ events = [n \in Nodes |-> <<>>]
    /\ update = [n \in Nodes |-> NoUpdate]
    /\ sent = 0
    /\ origin = [k \in Msgs |-> 0]
    /\ faults = 0

\* One step of a goroutine
Step(c) ==
    \/ HandleStream(c) \/ AddPeer(c) \/ BackgroundAddPeer(c) \/ RemovePeer(c)
    \/ Measure(c) \/ Assign(c) \/ Forward(c) \/ Check(c) \/ Observe(c)

NextStep ==
    \/ \E n \in net.nodes :
        \/ Start(n) \/ Crash(n) \/ Broadcast(n)
        \/ NewHeight(n) \/ HandleNewHeight(n)
        \/ \E m \in net.nodes : Send(n, m) \/ UpdatePeer(n, m)
        \/ \E k \in Msgs : ReadSubscription(n, k)
    \/ \E c \in DOMAIN calls : Lose(c) \/ Step(c)

Next == NextStep /\ UNCHANGED net

\* Goroutines are scheduled.  Nothing is assumed of the topic, of new
\* heights, of messages being sent, or of nodes being started again.
Spec == Init /\ [][Next]_vars
             /\ WF_vars((\E c \in DOMAIN calls : Step(c)) /\ UNCHANGED net)

-----------------------------------------------------------------------------
(* Properties *)

\* Whatever goroutines run together, the levels of a router and the level that
\* a call carries stay natural numbers: uint32 has no negative values, and a
\* level that is lowered below 0 would be huge.
TypeOK ==
    /\ up \in SUBSET Nodes
    /\ router \in [Nodes -> [view : Seq(Nodes), peers : SUBSET Nodes,
                             levels : Levels]]
    /\ pstore \in [Nodes -> SUBSET Nodes]
    /\ seen \in [Nodes -> Seq(Msgs)]
    /\ bus \in [Nodes -> Seq(Msgs)]
    /\ DOMAIN calls \subseteq Call
    /\ topic \in SUBSET (Msgs \X Nodes)
    /\ height \in [Nodes -> Heights]
    /\ events \in [Nodes -> Seq(Heights)]
    /\ update \in [Nodes -> [add : SUBSET Nodes, remove : SUBSET Nodes]]
    /\ sent \in 0 .. MaxMsgs
    /\ origin \in [Msgs -> 0 .. N]
    /\ faults \in 0 .. net.faults /\ net \in Networks

\* A message arrives by several branches of the tree and by the background
\* topic, in calls that run together.  A node publishes it again only when
\* MaxNonces other messages have been published in between.
RepublishedOnlyAfterEviction ==
    \A n \in Nodes : \A i, j \in DOMAIN bus[n] :
        i < j /\ bus[n][i] = bus[n][j] => j - i > MaxNonces

\* A node that is staked, then not, then again may handle the event of the
\* height between when it is staked again: it takes itself for a peer that
\* left, and at the next event for one that joined, and goes to the view once
\* more, at the end.
ComesBack(n) ==
    \E g, h, k \in Heights :
        /\ g < h /\ h < k
        /\ n \in net.staked[g] \ net.staked[h] /\ n \in net.staked[k]

\* Streams and height events add and remove peers together.  The view starts
\* with the node itself, ascends and wraps around once, and has every peer
\* of the peerstore, or the targets of a broadcast would be wrong.  (It may
\* have a peer twice: two calls can look for it before either adds it.)
ViewInOrder ==
    \A n \in up : router[n] # Nil /\ ~ ComesBack(n) =>
        LET view == router[n].view
            Rank(a) == IF a >= n THEN a ELSE a + N
        IN  /\ view # <<>> /\ view[1] = n
            /\ \A i \in 1 .. Len(view) - 1 : Rank(view[i]) <= Rank(view[i + 1])
            /\ router[n].peers \subseteq Range(view)

\* How far from its origin a broadcast gets among `size' validators: whoever
\* broadcasts from a level down reaches the targets of the level, and they and
\* itself go on one level below.  Rounding leaves validators out at some sizes.
Covered(size) ==
    LET r == [view |-> [i \in 1 .. size |-> i], levels |-> MaxLevels(size)]
        from[l \in 0 .. r.levels] ==
          IF l = 0 THEN {0}
          ELSE {(targetIndex(r, k, l) + d) % size : k \in 0 .. 2, d \in from[l - 1]}
    IN  from[r.levels]

\* How many places after its origin a validator is in the order of the tree
Ahead(k, n) ==
    LET before(m) == Cardinality({v \in net.staked[1] : v < m})
    IN  (before(n) - before(origin[k])) % Cardinality(net.staked[1])

Heard(k) ==
    \A n \in net.staked[1] \ {origin[k]} :
        \/ k \in Range(bus[n])
        \/ Ahead(k, n) \notin Covered(Cardinality(net.staked[1]))

Disturbed == faults > 0 \/ \E n \in Nodes : height[n] # 1

\* Whatever the order of the goroutines, the tree gets as far as its targets
\* say, without the help of the topic: when all are up at one height, a
\* broadcast is published by everyone the tree covers, unless a node crashes, a
\* message is lost or a height ends.
TreeDelivers ==
    \A k \in Msgs :
        (/\ sent = k /\ origin[k] \in net.staked[1] /\ net.staked[1] \subseteq up
         /\ \E c \in DOMAIN calls :
              /\ c.nonce = k /\ c.at = c.from /\ c.via = "raintree"
              /\ c.level = router[c.at].levels)
        ~> Disturbed \/ Heard(k)

=============================================================================
