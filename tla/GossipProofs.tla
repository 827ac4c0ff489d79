---------------------------- MODULE GossipProofs ----------------------------
(***************************************************************************)
(* For any number of nodes, any networks and any capacity of the deduper.  *)
(*                                                                         *)
(* A message is published again only after its nonce was evicted.  This is *)
(* not inductive.  What makes it hold is that the deduper has the nonces   *)
(* published last, in their order, and all of them as long as there is     *)
(* room (Dedups); and that only a call for a message gets to push a nonce, *)
(* never one that adds or removes a peer at a new height (CallsOK).        *)
(*                                                                         *)
(* The view of the peers stays in order.  That is what bisection, sorting, *)
(* adding and removing do with a view in order, provided that a node never *)
(* adds or removes itself; and ViewsInv says why it never does, unless it  *)
(* leaves the validators and comes back.                                   *)
(***************************************************************************)
EXTENDS Gossip, FiniteSetTheorems, WellFoundedInduction, TLAPS

USE Zenon

-----------------------------------------------------------------------------
(* Bags of calls *)

LEMMA PlusDomain ==
    ASSUME NEW A, NEW B
    PROVE  DOMAIN (A (+) B) = DOMAIN A \cup DOMAIN B
BY DEF (+)

LEMMA MinusDomain ==
    ASSUME NEW A, NEW B
    PROVE  DOMAIN (A (-) B) \subseteq DOMAIN A
BY DEF (-)

LEMMA SetDomain ==
    ASSUME NEW S
    PROVE  DOMAIN SetToBag(S) = S
BY DEF SetToBag

LEMMA EmptyDomain == DOMAIN EmptyBag = {}
BY SetDomain DEF EmptyBag

LEMMA ReplaceDomain ==
    ASSUME NEW c, NEW new, Replace(c, new)
    PROVE  DOMAIN calls' \subseteq DOMAIN calls \cup DOMAIN new
<1> DEFINE A == calls (-) SetToBag({c})
<1>1. DOMAIN A \subseteq DOMAIN calls
  BY MinusDomain
<1>2. calls' = A (+) new
  BY DEF Replace
<1> HIDE DEF A
<1>3. DOMAIN (A (+) new) = DOMAIN A \cup DOMAIN new
  BY PlusDomain
<1> QED
  BY <1>1, <1>2, <1>3

-----------------------------------------------------------------------------
(* What a call is *)

PCs == {"stream", "add", "remove", "measure", "assign", "forward", "check", "observe"}

UpdatePCs == {"add", "remove", "measure", "assign"}

IsCall(c) ==
    /\ DOMAIN c = {"at", "from", "nonce", "level", "via", "pc"}
    /\ c.at \in Nodes /\ c.from \in Nodes
    /\ c.via \in {"raintree", "background", "update"} /\ c.pc \in PCs
    /\ IF c.via = "update" THEN c.pc \in UpdatePCs ELSE c.nonce \in Msgs

LEMMA StreamIsCall ==
    ASSUME NEW via \in {"raintree", "background"}, NEW from \in Nodes, NEW to \in Nodes,
           NEW nonce \in Msgs, NEW level
    PROVE  IsCall(Stream(via, from, to, nonce, level))
BY SMT DEF IsCall, Stream, PCs

LEMMA SendDomain ==
    ASSUME up \subseteq Nodes, NEW via \in {"raintree", "background"}, NEW from \in Nodes,
           NEW to, NEW nonce \in Msgs, NEW level,
           NEW d \in DOMAIN Libp2pSendToPeer(via, from, to, nonce, level)
    PROVE  IsCall(d)
<1>1. CASE HasHandler(via, to)
  <2>1. to \in Nodes
    BY <1>1 DEF HasHandler
  <2>2. d = Stream(via, from, to, nonce, level)
    BY <1>1, SetDomain, SMT DEF Libp2pSendToPeer
  <2> QED
    BY <2>1, <2>2, StreamIsCall
<1>2. CASE ~ HasHandler(via, to)
  BY <1>2, EmptyDomain DEF Libp2pSendToPeer
<1> QED
  BY <1>1, <1>2

\* The call d is c gone on to p.
Follows(d, c, p) ==
    IsCall(d) /\ d.at = c.at /\ d.from = c.from /\ d.via = c.via /\ d.pc = p

\* A call goes on with another pc and level.
LEMMA CallGoesOn ==
    ASSUME NEW c, IsCall(c), NEW p \in PCs, c.via = "update" => p \in UpdatePCs, NEW l
    PROVE  /\ Follows([c EXCEPT !.pc = p], c, p) /\ Follows([c EXCEPT !.level = l], c, c.pc)
           /\ Follows([c EXCEPT !.pc = p, !.level = l], c, p)
           /\ Follows([c EXCEPT !.level = l, !.pc = p], c, p)
<1> DEFINE d == [c EXCEPT !.pc = p]
           e == [c EXCEPT !.level = l]
<1>1. /\ DOMAIN d = DOMAIN c /\ d.at = c.at /\ d.from = c.from /\ d.via = c.via
      /\ d.nonce = c.nonce /\ d.pc = p
  BY DEF IsCall
<1>2. /\ DOMAIN e = DOMAIN c /\ e.at = c.at /\ e.from = c.from /\ e.via = c.via
      /\ e.nonce = c.nonce /\ e.pc = c.pc
  BY DEF IsCall
<1> DEFINE f == [d EXCEPT !.level = l]
           g == [e EXCEPT !.pc = p]
<1> HIDE DEF d, e
<1>3. Follows(d, c, p) /\ Follows(e, c, c.pc)
  BY <1>1, <1>2 DEF IsCall, Follows
<1>4. /\ DOMAIN f = DOMAIN d /\ f.at = d.at /\ f.from = d.from /\ f.via = d.via
      /\ f.nonce = d.nonce /\ f.pc = d.pc
  BY <1>3 DEF IsCall, Follows
<1>5. /\ DOMAIN g = DOMAIN e /\ g.at = e.at /\ g.from = e.from /\ g.via = e.via
      /\ g.nonce = e.nonce /\ g.pc = p
  BY <1>3 DEF IsCall, Follows
<1> HIDE DEF f, g
<1>6. Follows(f, c, p) /\ Follows(g, c, p)
  BY <1>1, <1>2, <1>3, <1>4, <1>5 DEF IsCall, Follows
<1> QED
  BY <1>3, <1>6 DEF d, e, f, g

-----------------------------------------------------------------------------
(* The nonces of the deduper are those published last *)

Dedups(s, b) ==
    /\ Len(s) <= Len(b) /\ Len(s) <= MaxNonces
    /\ Len(s) < MaxNonces => Len(b) = Len(s)
    /\ \A i \in 1 .. Len(s) : s[i] = b[Len(b) - Len(s) + i]

Spaced(b) ==
    \A i, j \in DOMAIN b : i < j /\ b[i] = b[j] => j - i > MaxNonces

Push(s, k) ==
    LET pushed == Append(s, k)
    IN  IF Len(pushed) > MaxNonces THEN Tail(pushed) ELSE pushed

LEMMA PushDedups ==
    ASSUME NEW s \in Seq(Msgs), NEW b \in Seq(Msgs), NEW k \in Msgs, Dedups(s, b)
    PROVE  /\ Push(s, k) \in Seq(Msgs)
           /\ Dedups(Push(s, k), Append(b, k))
<1> DEFINE p == Append(s, k)
           q == Append(b, k)
<1>0. MaxNonces \in Nat \ {0}
  BY GossipAssumption
<1>1. /\ p \in Seq(Msgs) /\ Len(p) = Len(s) + 1 /\ p[Len(s) + 1] = k
      /\ \A i \in 1 .. Len(s) : p[i] = s[i]
  BY SMT
<1>2. /\ q \in Seq(Msgs) /\ Len(q) = Len(b) + 1 /\ q[Len(b) + 1] = k
      /\ \A i \in 1 .. Len(b) : q[i] = b[i]
  BY SMT
<1>3. Len(s) \in Nat /\ Len(b) \in Nat
  BY SMT
<1> HIDE DEF p, q
<1>4. \A i \in 1 .. Len(p) : p[i] = q[Len(q) - Len(p) + i]
  <2> SUFFICES ASSUME NEW i \in 1 .. Len(p)
               PROVE  p[i] = q[Len(q) - Len(p) + i]
    OBVIOUS
  <2>1. CASE i = Len(p)
    <3>1. Len(q) - Len(p) + i = Len(b) + 1 /\ i = Len(s) + 1
      BY <2>1, <1>1, <1>2, <1>3, SMT
    <3> QED
      BY <3>1, <1>1, <1>2
  <2>2. CASE i # Len(p)
    <3>1. /\ i \in 1 .. Len(s) /\ Len(q) - Len(p) + i = Len(b) - Len(s) + i
          /\ Len(b) - Len(s) + i \in 1 .. Len(b)
      BY <2>2, <1>1, <1>2, <1>3, SMT DEF Dedups
    <3> QED
      BY <3>1, <1>1, <1>2 DEF Dedups
  <2> QED
    BY <2>1, <2>2
<1>5. CASE Len(p) > MaxNonces
  <2> DEFINE t == Tail(p)
  <2>1. Push(s, k) = t
    BY <1>5 DEF Push, p
  <2>2. t \in Seq(Msgs) /\ Len(t) = Len(p) - 1 /\ \A i \in 1 .. Len(t) : t[i] = p[i + 1]
    BY <1>1, <1>3, SMT
  <2> HIDE DEF t
  <2>3. Len(t) = Len(s) /\ Len(s) = MaxNonces
    BY <2>2, <1>0, <1>1, <1>3, <1>5, SMT DEF Dedups
  <2>4. \A i \in 1 .. Len(t) : t[i] = q[Len(q) - Len(t) + i]
    <3> SUFFICES ASSUME NEW i \in 1 .. Len(t)
                 PROVE  t[i] = q[Len(q) - Len(t) + i]
      OBVIOUS
    <3>1. i + 1 \in 1 .. Len(p) /\ Len(q) - Len(p) + (i + 1) = Len(q) - Len(t) + i
      BY <2>2, <2>3, <1>1, <1>2, <1>3, SMT
    <3>2. t[i] = p[i + 1] /\ p[i + 1] = q[Len(q) - Len(p) + (i + 1)]
      BY <2>2, <1>4, <3>1
    <3> QED
      BY <3>1, <3>2
  <2>5. Len(t) <= Len(q) /\ Len(t) <= MaxNonces /\ ~(Len(t) < MaxNonces)
    BY <2>3, <1>0, <1>2, <1>3, SMT DEF Dedups
  <2> QED
    BY <2>1, <2>2, <2>4, <2>5 DEF Dedups, q
<1>6. CASE ~(Len(p) > MaxNonces)
  <2>1. Push(s, k) = p
    BY <1>6 DEF Push, p
  <2>2. Len(p) <= Len(q) /\ Len(p) <= MaxNonces /\ (Len(p) < MaxNonces => Len(q) = Len(p))
    BY <1>0, <1>1, <1>2, <1>3, <1>6, SMT DEF Dedups
  <2> QED
    BY <2>1, <2>2, <1>1, <1>4 DEF Dedups, q
<1> QED
  BY <1>5, <1>6

\* What is not among the last MaxNonces messages may be published again.
LEMMA PushSpaced ==
    ASSUME NEW s \in Seq(Msgs), NEW b \in Seq(Msgs), NEW k \in Msgs, Dedups(s, b),
           Spaced(b), k \notin Range(s)
    PROVE  Spaced(Append(b, k))
<1> DEFINE q == Append(b, k)
<1>0. MaxNonces \in Nat \ {0}
  BY GossipAssumption
<1>1. /\ DOMAIN q = 1 .. Len(b) + 1 /\ q[Len(b) + 1] = k
      /\ \A i \in 1 .. Len(b) : q[i] = b[i]
  BY SMT
<1>2. Len(s) \in Nat /\ Len(b) \in Nat /\ DOMAIN b = 1 .. Len(b) /\ DOMAIN s = 1 .. Len(s)
  BY SMT
<1> HIDE DEF q
<1> SUFFICES ASSUME NEW i \in DOMAIN q, NEW j \in DOMAIN q, i < j, q[i] = q[j]
             PROVE  j - i > MaxNonces
  BY DEF Spaced, q
<1>3. CASE j \in 1 .. Len(b)
  <2>1. i \in 1 .. Len(b)
    BY <1>1, <1>2, <1>3, SMT
  <2>2. b[i] = b[j]
    BY <2>1, <1>1, <1>3
  <2> QED
    BY <2>1, <2>2, <1>2, <1>3 DEF Spaced
<1>4. CASE j \notin 1 .. Len(b)
  <2>1. j = Len(b) + 1 /\ i \in 1 .. Len(b)
    BY <1>1, <1>2, <1>4, SMT
  <2>2. b[i] = k
    BY <1>1, <2>1
  <2> DEFINE m == i - (Len(b) - Len(s))
  <2>3. m \notin 1 .. Len(s)
    <3> SUFFICES ASSUME m \in 1 .. Len(s) PROVE FALSE
      OBVIOUS
    <3>1. Len(b) - Len(s) + m = i
      BY <1>2, <2>1, SMT
    <3> HIDE DEF m
    <3>2. s[m] = k
      BY <3>1, <2>2 DEF Dedups
    <3> QED
      BY <3>2, <1>2 DEF Range
  <2>4. i <= Len(b) - Len(s)
    BY <2>1, <2>3, <1>2, SMT
  <2>5. Len(s) = MaxNonces
    <3>1. Len(s) <= MaxNonces /\ (Len(s) < MaxNonces => Len(b) = Len(s))
      BY DEF Dedups
    <3>2. \A x, y, n \in Nat : \A a \in 1 .. y :
            a <= y - x /\ x <= n /\ (x < n => y = x) => x = n
      BY SMT
    <3>3. MaxNonces \in Nat /\ Len(s) \in Nat /\ Len(b) \in Nat
      BY <1>0, <1>2
    <3> QED
      BY <2>1, <2>4, <3>1, <3>2, <3>3
  <2> QED
    BY <2>1, <2>4, <2>5, <1>2, SMT
<1> QED
  BY <1>3, <1>4

-----------------------------------------------------------------------------
(* The calls *)

NetOK == net \in Networks /\ up \subseteq Nodes /\ sent \in Nat

CallsOK == \A c \in DOMAIN calls : IsCall(c)

LEMMA NetFacts ==
    ASSUME NetOK
    PROVE  /\ net.nodes \subseteq Nodes /\ net.msgs \in 0 .. MaxMsgs
           /\ \A h \in Heights : net.staked[h] \subseteq Nodes
<1>1. net \in [nodes : SUBSET Nodes, staked : [Heights -> SUBSET Nodes],
               top : [Nodes -> Heights], readers : SUBSET Nodes,
               msgs : 0 .. MaxMsgs, faults : Nat]
  BY GossipAssumption DEF NetOK
<1>2. net.nodes \in SUBSET Nodes /\ net.msgs \in 0 .. MaxMsgs
  BY <1>1
<1>3. net.staked \in [Heights -> SUBSET Nodes]
  BY <1>1
<1> QED
  BY <1>2, <1>3

LEMMA NextNonce ==
    ASSUME NetOK, sent < net.msgs, sent' = sent + 1
    PROVE  sent' \in Msgs /\ sent' \in Nat
<1>1. net.msgs \in 0 .. MaxMsgs /\ sent \in Nat /\ MaxMsgs \in Nat
  BY NetFacts, GossipAssumption DEF NetOK
<1> QED
  BY <1>1, SMT DEF Msgs

LEMMA CallsReplaced ==
    ASSUME CallsOK, NEW c, NEW new, Replace(c, new), \A d \in DOMAIN new : IsCall(d)
    PROVE  CallsOK'
BY ReplaceDomain DEF CallsOK

LEMMA CallsAdded ==
    ASSUME CallsOK, NEW new, calls' = calls (+) new, \A d \in DOMAIN new : IsCall(d)
    PROVE  CallsOK'
<1>1. DOMAIN calls' = DOMAIN calls \cup DOMAIN new
  BY PlusDomain
<1> QED
  BY <1>1 DEF CallsOK

LEMMA CallReplaced ==
    ASSUME CallsOK, NEW c, NEW d, Replace(c, SetToBag({d})), IsCall(d)
    PROVE  CallsOK'
BY CallsReplaced, SetDomain, SMT

LEMMA CallAdded ==
    ASSUME CallsOK, NEW d, calls' = calls (+) SetToBag({d}), IsCall(d)
    PROVE  CallsOK'
BY CallsAdded, SetDomain, SMT

LEMMA CallReturns ==
    ASSUME CallsOK, NEW c, Return(c)
    PROVE  CallsOK'
BY CallsReplaced, EmptyDomain DEF Return

\* The call goes on at p, at whatever level.
MovesTo(c, p) == \E d : Follows(d, c, p) /\ Replace(c, SetToBag({d}))

LEMMA CallMoves ==
    ASSUME CallsOK, NEW c, NEW p, MovesTo(c, p)
    PROVE  CallsOK'
BY CallReplaced DEF MovesTo, Follows

LEMMA GotoMoves ==
    ASSUME NEW c, IsCall(c), NEW p \in PCs, c.via = "update" => p \in UpdatePCs, Goto(c, p)
    PROVE  MovesTo(c, p)
<1> DEFINE d == [c EXCEPT !.pc = p]
<1>1. Follows(d, c, p)
  BY CallGoesOn
<1>2. Replace(c, SetToBag({d}))
  BY DEF Goto
<1> HIDE DEF d
<1> QED
  BY <1>1, <1>2 DEF MovesTo

LEMMA CallsEnd ==
    ASSUME CallsOK, NEW n, ProcessEnds(n)
    PROVE  CallsOK'
<1>1. DOMAIN calls' \subseteq DOMAIN calls
  BY DEF ProcessEnds
<1> QED
  BY <1>1 DEF CallsOK

LEMMA BroadcastCalls ==
    ASSUME NetOK, CallsOK, NEW n \in net.nodes, Broadcast(n)
    PROVE  CallsOK'
<1>1. n \in Nodes /\ sent' \in Msgs
  BY NetFacts, NextNonce DEF Broadcast
<1>2. CASE IsStakedActor(n)
  <2> DEFINE d == [at |-> n, from |-> n, nonce |-> sent', pc |-> "forward",
                   level |-> router[n].levels, via |-> "raintree"]
  <2>1. IsCall(d)
    BY <1>1, SMT DEF IsCall, PCs
  <2>2. calls' = calls (+) SetToBag({d})
    BY <1>2 DEF Broadcast
  <2> HIDE DEF d
  <2> QED
    BY <2>1, <2>2, CallAdded
<1>3. CASE ~ IsStakedActor(n)
  BY <1>3 DEF Broadcast, CallsOK
<1> QED
  BY <1>2, <1>3

LEMMA SendCalls ==
    ASSUME NetOK, CallsOK, NEW n \in net.nodes, NEW m, Send(n, m)
    PROVE  CallsOK'
<1>1. n \in Nodes /\ sent' \in Msgs /\ up \subseteq Nodes
  BY NetFacts, NextNonce DEF Send, NetOK
<1>2. CASE ProcessEnds(n)
  BY <1>2, CallsEnd
<1>3. ASSUME NEW via \in {"raintree", "background"},
             calls' = calls (+) Libp2pSendToPeer(via, n, m, sent', 0)
      PROVE  CallsOK'
  <2> DEFINE new == Libp2pSendToPeer(via, n, m, sent', 0)
  <2>1. \A d \in DOMAIN new : IsCall(d)
    BY <1>1, SendDomain
  <2>2. calls' = calls (+) new
    BY <1>3
  <2> HIDE DEF new
  <2> QED
    BY <2>1, <2>2, CallsAdded
<1>4. CASE calls' = calls
  BY <1>4 DEF CallsOK
<1> QED
  BY <1>2, <1>3, <1>4 DEF Send, BackgroundSend

LEMMA ForwardCalls ==
    ASSUME NetOK, CallsOK, NEW c \in DOMAIN calls, Forward(c)
    PROVE  CallsOK'
<1> DEFINE to(k) == getTarget(c.at, k, c.level)
           copy(k) == IF to(k) = 0 THEN EmptyBag
                      ELSE Libp2pSendToPeer("raintree", c.at, to(k), c.nonce, c.level)
           rest == IF c.level > 1 THEN {[c EXCEPT !.level = @ - 1]}
                   ELSE IF c.from = c.at THEN {}
                   ELSE {[c EXCEPT !.level = 0, !.pc = "check"]}
           sends == IF c.level = 0 THEN EmptyBag ELSE copy(1) (+) copy(2)
<1>1. /\ IsCall(c) /\ c.via # "update" /\ c.nonce \in Msgs /\ c.at \in Nodes
      /\ up \subseteq Nodes
  BY DEF CallsOK, IsCall, Forward, UpdatePCs, NetOK
<1>2. Replace(c, sends (+) SetToBag(rest))
  BY DEF Forward
<1>3. ASSUME NEW k, NEW d \in DOMAIN copy(k)
      PROVE  IsCall(d)
  <2> HIDE DEF to
  <2> QED
    BY <1>1, SendDomain, EmptyDomain
<1>4. \A d \in rest : IsCall(d)
  <2> DEFINE d == [c EXCEPT !.level = c.level - 1]
             e == [c EXCEPT !.level = 0, !.pc = "check"]
  <2>1. Follows(d, c, c.pc) /\ Follows(e, c, "check")
    BY <1>1, CallGoesOn DEF PCs
  <2>2. rest \subseteq {d, e}
    OBVIOUS
  <2> HIDE DEF d, e, rest
  <2> QED
    BY <2>1, <2>2 DEF Follows
<1> HIDE DEF copy, rest
<1>5. \A d \in DOMAIN sends : IsCall(d)
  <2>1. DOMAIN (copy(1) (+) copy(2)) = DOMAIN copy(1) \cup DOMAIN copy(2)
    BY PlusDomain
  <2> QED
    BY <1>3, <2>1, EmptyDomain
<1> HIDE DEF sends
<1>6. DOMAIN (sends (+) SetToBag(rest)) = DOMAIN sends \cup rest
  <2>1. DOMAIN SetToBag(rest) = rest
    BY SetDomain
  <2>2. DOMAIN (sends (+) SetToBag(rest)) = DOMAIN sends \cup DOMAIN SetToBag(rest)
    BY PlusDomain
  <2> QED
    BY <2>1, <2>2
<1> QED
  BY <1>2, <1>4, <1>5, <1>6, CallsReplaced

\* How the other steps of a call go on
LEMMA HandleStreamMoves ==
    ASSUME CallsOK, NEW c \in DOMAIN calls, HandleStream(c)
    PROVE  /\ c.via # "update"
           /\ \/ MovesTo(c, "forward") \/ MovesTo(c, "check")
              \/ /\ MovesTo(c, "add")
                 /\ c.via = "raintree" => c.from \notin router[c.at].peers
<1> DEFINE d == Demoted(c)
           e == [d EXCEPT !.pc = "add"]
           p == IF c.level > 1 THEN "forward" ELSE "check"
           l == IF c.level > 0 THEN c.level - 1 ELSE 0
           known == IF c.via = "raintree" THEN router[c.at].peers ELSE pstore[c.at]
<1>1. IsCall(c) /\ c.via # "update"
  BY DEF CallsOK, IsCall, HandleStream, UpdatePCs
<1>2. Follows(d, c, p)
  <2>1. d = [c EXCEPT !.pc = p, !.level = l]
    BY DEF Demoted
  <2>2. p \in PCs
    BY DEF PCs
  <2> HIDE DEF p, l, d
  <2> QED
    BY <1>1, <2>1, <2>2, CallGoesOn
<1>3. Replace(c, SetToBag({IF c.from \in known THEN d ELSE e}))
  BY DEF HandleStream
<1> HIDE DEF d
<1>4. Follows(e, c, "add")
  <2>1. IsCall(d) /\ d.via # "update" /\ "add" \in PCs
    BY <1>1, <1>2 DEF Follows, PCs
  <2>2. Follows(e, d, "add")
    BY <2>1, CallGoesOn
  <2> HIDE DEF e
  <2> QED
    BY <1>2, <2>2 DEF Follows
<1> HIDE DEF e
<1>5. CASE c.from \in known
  <2>1. MovesTo(c, p)
    BY <1>2, <1>3, <1>5 DEF MovesTo
  <2> QED
    BY <1>1, <2>1
<1>6. CASE c.from \notin known
  <2>1. MovesTo(c, "add")
    BY <1>3, <1>4, <1>6 DEF MovesTo
  <2> QED
    BY <1>1, <1>6, <2>1
<1> QED
  BY <1>5, <1>6

LEMMA PeerMoves ==
    ASSUME NEW c, IsCall(c), AddPeer(c) \/ RemovePeer(c)
    PROVE  MovesTo(c, "measure")
<1>1. Goto(c, "measure")
  BY DEF AddPeer, RemovePeer
<1> QED
  BY <1>1, GotoMoves DEF PCs, UpdatePCs

LEMMA BackgroundMoves ==
    ASSUME NEW c, IsCall(c), BackgroundAddPeer(c)
    PROVE  MovesTo(c, "check")
<1>1. Goto(c, "check") /\ c.via # "update"
  BY DEF BackgroundAddPeer
<1> QED
  BY <1>1, GotoMoves DEF PCs

LEMMA MeasureMoves ==
    ASSUME NEW c, IsCall(c), Measure(c)
    PROVE  MovesTo(c, "assign")
<1> DEFINE l == c.level + Base * MaxLevels(Cardinality(router[c.at].peers))
           d == [c EXCEPT !.pc = "assign", !.level = l]
<1>1. Replace(c, SetToBag({d}))
  BY DEF Measure
<1> HIDE DEF l
<1>2. Follows(d, c, "assign")
  BY CallGoesOn DEF PCs, UpdatePCs
<1> HIDE DEF d
<1> QED
  BY <1>1, <1>2 DEF MovesTo

LEMMA AssignMoves ==
    ASSUME NEW c, IsCall(c), Assign(c)
    PROVE  Return(c) \/ MovesTo(c, "forward")
<1> DEFINE l == c.level % Base
           d == [c EXCEPT !.pc = "forward", !.level = l]
<1>1. Return(c) \/ (c.via # "update" /\ Replace(c, SetToBag({d})))
  BY DEF Assign
<1> HIDE DEF l
<1>2. c.via # "update" => Follows(d, c, "forward")
  BY CallGoesOn DEF PCs
<1> HIDE DEF d
<1> QED
  BY <1>1, <1>2 DEF MovesTo

LEMMA CheckMoves ==
    ASSUME NEW c, IsCall(c), Check(c)
    PROVE  Return(c) \/ MovesTo(c, "observe")
<1>1. Return(c) \/ Goto(c, "observe")
  BY DEF Check
<1>2. c.via # "update"
  BY DEF Check, IsCall, UpdatePCs
<1> QED
  BY <1>1, <1>2, GotoMoves DEF PCs

LEMMA StepCalls ==
    ASSUME NetOK, CallsOK, NEW c \in DOMAIN calls, Step(c)
    PROVE  CallsOK'
<1>0. IsCall(c)
  BY DEF CallsOK
<1>1. CASE Forward(c)
  BY <1>1, ForwardCalls
<1>2. CASE ~ Forward(c)
  <2>1. Return(c) \/ \E p \in PCs : MovesTo(c, p)
    BY <1>0, <1>2, HandleStreamMoves, PeerMoves, BackgroundMoves, MeasureMoves, AssignMoves,
       CheckMoves DEF Step, Observe, PCs
  <2> QED
    BY <2>1, CallMoves, CallReturns
<1> QED
  BY <1>1, <1>2

LEMMA UpdateCalls ==
    ASSUME NetOK, CallsOK, NEW n \in net.nodes, NEW p \in net.nodes, UpdatePeer(n, p)
    PROVE  CallsOK'
<1>1. n \in Nodes /\ p \in Nodes
  BY NetFacts
<1>2. calls' = calls \/ \E pc \in {"add", "remove"} : UpdateCall(n, p, pc)
  BY DEF UpdatePeer
<1>3. ASSUME NEW pc \in {"add", "remove"}, UpdateCall(n, p, pc)
      PROVE  CallsOK'
  <2> DEFINE d == [at |-> n, from |-> p, nonce |-> 0, level |-> 0, via |-> "update",
                   pc |-> pc]
  <2>1. IsCall(d)
    BY <1>1, SMT DEF IsCall, PCs, UpdatePCs
  <2>2. calls' = calls (+) SetToBag({d})
    BY <1>3 DEF UpdateCall
  <2> HIDE DEF d
  <2> QED
    BY <2>1, <2>2, CallAdded
<1> QED
  BY <1>2, <1>3 DEF CallsOK

LEMMA ReadCalls ==
    ASSUME NetOK, CallsOK, NEW n \in net.nodes, NEW k \in Msgs, ReadSubscription(n, k)
    PROVE  CallsOK'
<1> DEFINE d == [at |-> n, from |-> n, nonce |-> k, level |-> 0,
                 via |-> "background", pc |-> "check"]
<1>1. n \in Nodes
  BY NetFacts
<1>2. IsCall(d)
  BY <1>1, SMT DEF IsCall, PCs
<1>3. calls' = calls (+) SetToBag({d})
  BY DEF ReadSubscription
<1> HIDE DEF d
<1> QED
  BY <1>2, <1>3, CallAdded

-----------------------------------------------------------------------------
(* A message is published again only after its nonce was evicted *)

DedupedInv ==
    /\ seen \in [Nodes -> Seq(Msgs)] /\ bus \in [Nodes -> Seq(Msgs)]
    /\ \A n \in Nodes : Dedups(seen[n], bus[n]) /\ Spaced(bus[n])

DedupInv == NetOK /\ CallsOK /\ DedupedInv

\* The steps that neither publish nor end a process
LEMMA DedupedKept ==
    ASSUME DedupedInv, UNCHANGED <<seen, bus>>
    PROVE  DedupedInv'
BY DEF DedupedInv

LEMMA EmptyDeduped == Dedups(<<>>, <<>>) /\ Spaced(<<>>) /\ <<>> \in Seq(Msgs)
<1>1. MaxNonces \in Nat
  BY GossipAssumption
<1> QED
  BY <1>1, SMT DEF Dedups, Spaced

LEMMA DedupedEnds ==
    ASSUME DedupedInv, NEW n \in Nodes, ProcessEnds(n)
    PROVE  DedupedInv'
<1>1. /\ seen' = [seen EXCEPT ![n] = <<>>] /\ bus' = [bus EXCEPT ![n] = <<>>]
  BY DEF ProcessEnds
<1>2. seen' \in [Nodes -> Seq(Msgs)] /\ bus' \in [Nodes -> Seq(Msgs)]
  BY <1>1, EmptyDeduped DEF DedupedInv
<1>3. ASSUME NEW m \in Nodes
      PROVE  Dedups(seen'[m], bus'[m]) /\ Spaced(bus'[m])
  <2>1. CASE m = n
    <3>1. seen'[m] = <<>> /\ bus'[m] = <<>>
      BY <1>1, <2>1 DEF DedupedInv
    <3> QED
      BY <3>1, EmptyDeduped
  <2>2. CASE m # n
    <3>1. seen'[m] = seen[m] /\ bus'[m] = bus[m]
      BY <1>1, <2>2 DEF DedupedInv
    <3> QED
      BY <3>1 DEF DedupedInv
  <2> QED
    BY <2>1, <2>2
<1>4. \A m \in Nodes : (Dedups(seen[m], bus[m]) /\ Spaced(bus[m]))'
  BY <1>3 DEF Dedups, Spaced
<1> QED
  BY <1>2, <1>4 DEF DedupedInv

LEMMA DedupedObserve ==
    ASSUME DedupedInv, NEW c, IsCall(c), Observe(c)
    PROVE  DedupedInv'
<1> DEFINE n == c.at
           s == seen[n]
           b == bus[n]
           k == c.nonce
<1>1. n \in Nodes /\ k \in Msgs
  BY DEF IsCall, Observe, UpdatePCs
<1>2. CASE k \in Deduped(n)
  BY <1>2, DedupedKept DEF Observe
<1>3. CASE k \notin Deduped(n)
  <2>1. /\ seen' = [seen EXCEPT ![n] = Push(s, k)]
        /\ bus' = [bus EXCEPT ![n] = Append(b, k)]
    BY <1>3 DEF Observe, Push
  <2>2. s \in Seq(Msgs) /\ b \in Seq(Msgs) /\ Dedups(s, b) /\ Spaced(b)
    BY <1>1 DEF DedupedInv
  <2>3. k \notin Range(s)
    BY <1>3 DEF Deduped
  <2> HIDE DEF n, s, b, k
  <2> DEFINE t == Push(s, k)
             q == Append(b, k)
  <2>4. /\ t \in Seq(Msgs) /\ q \in Seq(Msgs) /\ Dedups(t, q) /\ Spaced(q)
    <3>1. q \in Seq(Msgs)
      BY <1>1, <2>2, SMT
    <3> QED
      BY <1>1, <2>2, <2>3, <3>1, PushDedups, PushSpaced
  <2> HIDE DEF t, q
  <2>5. seen' = [seen EXCEPT ![n] = t] /\ bus' = [bus EXCEPT ![n] = q]
    BY <2>1 DEF t, q
  <2>6. seen' \in [Nodes -> Seq(Msgs)] /\ bus' \in [Nodes -> Seq(Msgs)]
    BY <2>4, <2>5 DEF DedupedInv
  <2>7. ASSUME NEW m \in Nodes
        PROVE  Dedups(seen'[m], bus'[m]) /\ Spaced(bus'[m])
    <3>1. CASE m = n
      <4>1. seen'[m] = t /\ bus'[m] = q
        BY <2>5, <3>1 DEF DedupedInv
      <4> QED
        BY <4>1, <2>4
    <3>2. CASE m # n
      <4>1. seen'[m] = seen[m] /\ bus'[m] = bus[m]
        BY <2>5, <3>2 DEF DedupedInv
      <4> QED
        BY <4>1 DEF DedupedInv
    <3> QED
      BY <3>1, <3>2
  <2>8. \A m \in Nodes : (Dedups(seen[m], bus[m]) /\ Spaced(bus[m]))'
    BY <2>7 DEF Dedups, Spaced
  <2> QED
    BY <2>6, <2>8 DEF DedupedInv
<1> QED
  BY <1>2, <1>3

LEMMA DedupNode ==
    ASSUME DedupInv, NEW n \in net.nodes, UNCHANGED net,
           \/ Start(n) \/ Crash(n) \/ Broadcast(n) \/ NewHeight(n) \/ HandleNewHeight(n)
           \/ \E m \in net.nodes : Send(n, m) \/ UpdatePeer(n, m)
           \/ \E k \in Msgs : ReadSubscription(n, k)
    PROVE  DedupInv'
<1> USE DEF DedupInv
<1>0. n \in Nodes
  BY NetFacts
<1>1. NetOK'
  <2>1. up' = up \/ up' = up \cup {n} \/ up' = up \ {n}
    BY DEF Start, Crash, Broadcast, NewHeight, HandleNewHeight, Send, UpdatePeer,
           ReadSubscription, ProcessEnds, node
  <2>2. sent' = sent \/ sent' = sent + 1
    BY DEF Start, Crash, Broadcast, NewHeight, HandleNewHeight, Send, UpdatePeer,
           ReadSubscription
  <2>3. sent' \in Nat
    BY <2>2, SMT DEF NetOK
  <2> QED
    BY <1>0, <2>1, <2>3 DEF NetOK
<1>2. CASE ProcessEnds(n)
  BY <1>0, <1>1, <1>2, CallsEnd, DedupedEnds
<1>3. CASE ~ ProcessEnds(n)
  <2>1. DedupedInv'
    <3>1. UNCHANGED <<seen, bus>>
      BY <1>3 DEF Start, Crash, Broadcast, NewHeight, HandleNewHeight, Send, UpdatePeer,
           ReadSubscription, node
    <3> QED
      BY <3>1, DedupedKept
  <2>2. CASE Start(n) \/ Crash(n) \/ NewHeight(n) \/ HandleNewHeight(n)
    <3>1. calls' = calls
      BY <1>3, <2>2 DEF Start, Crash, NewHeight, HandleNewHeight
    <3> QED
      BY <1>1, <2>1, <3>1 DEF CallsOK
  <2> QED
    BY <1>1, <2>1, <2>2, BroadcastCalls, SendCalls, UpdateCalls, ReadCalls
<1> QED
  BY <1>2, <1>3

LEMMA DedupCall ==
    ASSUME DedupInv, NEW c \in DOMAIN calls, UNCHANGED net, Lose(c) \/ Step(c)
    PROVE  DedupInv'
<1> USE DEF DedupInv
<1>1. NetOK'
  <2>1. up' = up /\ sent' = sent
    BY DEF Lose, Step, HandleStream, AddPeer, BackgroundAddPeer, RemovePeer, Measure,
           Assign, Forward, Check, Observe, node
  <2> QED
    BY <2>1 DEF NetOK
<1>2. CallsOK'
  BY StepCalls, CallReturns DEF Lose
<1>3. CASE Observe(c)
  <2>1. IsCall(c)
    BY DEF CallsOK
  <2> QED
    BY <1>1, <1>2, <1>3, <2>1, DedupedObserve
<1>4. CASE ~ Observe(c)
  <2>1. UNCHANGED <<seen, bus>>
    BY <1>4 DEF Lose, Step, HandleStream, AddPeer, BackgroundAddPeer, RemovePeer, Measure,
           Assign, Forward, Check, node
  <2> QED
    BY <1>1, <1>2, <2>1, DedupedKept
<1> QED
  BY <1>3, <1>4

LEMMA DedupHolds == Spec => []DedupInv
<1>1. Init => DedupInv
  <2> SUFFICES ASSUME Init PROVE DedupInv
    OBVIOUS
  <2>1. NetOK
    <3>1. net \in Networks /\ up = net.nodes /\ sent = 0
      BY DEF Init
    <3>2. net \in [nodes : SUBSET Nodes, staked : [Heights -> SUBSET Nodes],
                   top : [Nodes -> Heights], readers : SUBSET Nodes,
                   msgs : 0 .. MaxMsgs, faults : Nat]
      BY <3>1, GossipAssumption
    <3>3. net.nodes \in SUBSET Nodes /\ 0 \in Nat
      BY <3>2, SMT
    <3> QED
      BY <3>1, <3>3 DEF NetOK
  <2>2. CallsOK
    BY EmptyDomain DEF Init, CallsOK
  <2>3. DedupedInv
    BY EmptyDeduped DEF Init, DedupedInv
  <2> QED
    BY <2>1, <2>2, <2>3 DEF DedupInv
<1>2. DedupInv /\ [Next]_vars => DedupInv'
  <2> SUFFICES ASSUME DedupInv, [Next]_vars PROVE DedupInv'
    OBVIOUS
  <2>1. CASE Next
    BY <2>1, DedupNode, DedupCall DEF Next, NextStep
  <2>2. CASE UNCHANGED vars
    BY <2>2 DEF vars, node, DedupInv, NetOK, CallsOK, DedupedInv
  <2> QED
    BY <2>1, <2>2
<1> QED
  BY <1>1, <1>2, PTL DEF Spec

\* handlePocketEnvelope looks a nonce up and pushes it in two steps, and calls
\* for the same message run together.  Still, with any number of nodes, any
\* capacity of the deduper and any network, a node publishes a message on its
\* bus again only when at least as many others as the deduper holds were
\* published in between.
THEOREM NoEarlyRepublication == Spec => []RepublishedOnlyAfterEviction
<1>1. DedupInv => RepublishedOnlyAfterEviction
  BY DEF DedupInv, DedupedInv, Spaced, RepublishedOnlyAfterEviction
<1> QED
  BY <1>1, DedupHolds, PTL

-----------------------------------------------------------------------------
(* Searching, sorting and the view *)

LEMMA LeastNat ==
    ASSUME NEW S, S \subseteq Nat, S # {}
    PROVE  \E m \in S : \A k \in S : m <= k
<1>1. PICK m \in S : \A k \in S : <<k, m>> \notin OpToRel(<, Nat)
  BY WFMin, NatLessThanWellFounded
<1>2. ASSUME NEW k \in S PROVE m <= k
  <2>1. <<k, m>> \in Nat \X Nat /\ <<k, m>>[1] = k /\ <<k, m>>[2] = m
    BY SMT
  <2>2. ~ (k < m)
    BY <1>1, <2>1 DEF OpToRel
  <2> QED
    BY <2>2, SMT
<1> QED
  BY <1>2

LEMMA Halves ==
    ASSUME NEW i \in Nat, NEW j \in Nat, i < j
    PROVE  (i + j) \div 2 \in Nat /\ i <= (i + j) \div 2 /\ (i + j) \div 2 < j
BY SMT

Bisects(f, n, T) ==
    f = [b \in (0 .. n) \X (0 .. n) |->
           LET h == (b[1] + b[2]) \div 2
           IN  IF b[1] >= b[2] THEN b[1]
               ELSE IF h \in T THEN f[<<b[1], h>>]
               ELSE f[<<h + 1, b[2]>>]]

LEMMA SearchBisects ==
    ASSUME NEW n, NEW T, \E f : Bisects(f, n, T)
    PROVE  \E f : Bisects(f, n, T) /\ Search(n, T) = f[<<0, n>>]
<1>1. Search(n, T) = (CHOOSE f : Bisects(f, n, T))[<<0, n>>]
  BY DEF Search, Bisects
<1> QED
  BY <1>1

\* How the halves go on, by cases
LEMMA BisectsAt ==
    ASSUME NEW n \in Nat, NEW T, NEW f, Bisects(f, n, T), NEW i \in 0 .. n, NEW j \in 0 .. n,
           NEW h, h = (i + j) \div 2
    PROVE  /\ i >= j => f[<<i, j>>] = i
           /\ ~ (i >= j) /\ h \in T => f[<<i, j>>] = f[<<i, h>>]
           /\ ~ (i >= j) /\ h \notin T => f[<<i, j>>] = f[<<h + 1, j>>]
<1> DEFINE b == <<i, j>>
<1>1. b \in (0 .. n) \X (0 .. n) /\ b[1] = i /\ b[2] = j
  BY SMT
<1> HIDE DEF b
<1>2. f[b] = LET k == (b[1] + b[2]) \div 2
             IN  IF b[1] >= b[2] THEN b[1]
                 ELSE IF k \in T THEN f[<<b[1], k>>] ELSE f[<<k + 1, b[2]>>]
  BY <1>1 DEF Bisects
<1> QED
  BY <1>1, <1>2 DEF b

Clamp(m, i, j) == IF i >= j \/ m <= i THEN i ELSE IF m >= j THEN j ELSE m

LEMMA ClampBisects ==
    ASSUME NEW n \in Nat, NEW m \in 0 .. n
    PROVE  \E f : Bisects(f, n, m .. n - 1)
<1> DEFINE T == m .. n - 1
           D == (0 .. n) \X (0 .. n)
           f == [b \in D |-> Clamp(m, b[1], b[2])]
<1>1. ASSUME NEW i \in 0 .. n, NEW j \in 0 .. n
      PROVE  f[<<i, j>>] = Clamp(m, i, j)
  <2> DEFINE b == <<i, j>>
  <2>1. b \in D /\ b[1] = i /\ b[2] = j
    BY SMT
  <2> HIDE DEF b
  <2>2. f[b] = Clamp(m, b[1], b[2])
    BY <2>1
  <2> QED
    BY <2>1, <2>2 DEF b
<1> HIDE DEF f
<1>2. ASSUME NEW b \in D
      PROVE  LET h == (b[1] + b[2]) \div 2
             IN  Clamp(m, b[1], b[2]) =
                   IF b[1] >= b[2] THEN b[1]
                   ELSE IF h \in T THEN f[<<b[1], h>>] ELSE f[<<h + 1, b[2]>>]
  <2> DEFINE i == b[1]
             j == b[2]
             h == (i + j) \div 2
  <2>1. i \in 0 .. n /\ j \in 0 .. n
    OBVIOUS
  <2> HIDE DEF i, j
  <2>2. CASE i >= j
    BY <2>2 DEF Clamp, i, j
  <2>3. CASE ~ (i >= j)
    <3>1. h \in Nat /\ i <= h /\ h < j
      BY <2>1, <2>3, Halves, SMT
    <3> HIDE DEF h
    <3>2. h \in 0 .. n /\ h + 1 \in 0 .. n
      BY <2>1, <3>1, SMT
    <3>3. CASE h \in T
      <4>1. Clamp(m, i, j) = Clamp(m, i, h)
        BY <2>1, <2>3, <3>1, <3>3, SMT DEF Clamp
      <4>2. f[<<i, h>>] = Clamp(m, i, h)
        BY <1>1, <2>1, <3>2
      <4> QED
        BY <2>3, <3>3, <4>1, <4>2 DEF i, j, h
    <3>4. CASE h \notin T
      <4>1. Clamp(m, i, j) = Clamp(m, h + 1, j)
        BY <2>1, <2>3, <3>1, <3>4, SMT DEF Clamp
      <4>2. f[<<h + 1, j>>] = Clamp(m, h + 1, j)
        BY <1>1, <2>1, <3>2
      <4> QED
        BY <2>3, <3>4, <4>1, <4>2 DEF i, j, h
    <3> QED
      BY <3>3, <3>4
  <2> QED
    BY <2>2, <2>3
<1>3. f = [b \in D |-> LET h == (b[1] + b[2]) \div 2
                       IN  IF b[1] >= b[2] THEN b[1]
                           ELSE IF h \in T THEN f[<<b[1], h>>]
                           ELSE f[<<h + 1, b[2]>>]]
  <2>1. f = [b \in D |-> Clamp(m, b[1], b[2])]
    BY DEF f
  <2> QED
    BY <1>2, <2>1
<1> QED
  BY <1>3 DEF Bisects

\* Where the condition of a search is false first and then true, it finds the
\* first place at which it is true.
LEMMA SearchFinds ==
    ASSUME NEW n \in Nat, NEW m \in 0 .. n
    PROVE  Search(n, m .. n - 1) = m
<1> DEFINE T == m .. n - 1
<1>1. PICK f : Bisects(f, n, T) /\ Search(n, T) = f[<<0, n>>]
  BY ClampBisects, SearchBisects
<1> HIDE DEF T
<1> DEFINE Bad == {d \in Nat : \E i, j \in 0 .. n :
                     i <= m /\ m <= j /\ j - i = d /\ f[<<i, j>>] # m}
<1>2. Bad = {}
  <2> SUFFICES ASSUME Bad # {} PROVE FALSE
    OBVIOUS
  <2>1. PICK d \in Bad : \A e \in Bad : d <= e
    <3> HIDE DEF Bad
    <3>1. Bad \in SUBSET Nat
      BY DEF Bad
    <3> QED
      BY <3>1, LeastNat
  <2>2. PICK i \in 0 .. n, j \in 0 .. n :
          i <= m /\ m <= j /\ j - i = d /\ f[<<i, j>>] # m
    OBVIOUS
  <2>3. ASSUME NEW k \in 0 .. n, NEW l \in 0 .. n, k <= m, m <= l, l - k < d
        PROVE  f[<<k, l>>] = m
    <3>1. l - k \in Nat /\ d \in Nat /\ ~ (d <= l - k)
      BY <2>3, SMT
    <3> QED
      BY <2>1, <2>3, <3>1
  <2> HIDE DEF Bad
  <2> DEFINE h == (i + j) \div 2
  <2>h. h = (i + j) \div 2
    OBVIOUS
  <2> HIDE DEF h
  <2>4. /\ i >= j => f[<<i, j>>] = i
        /\ ~ (i >= j) /\ h \in T => f[<<i, j>>] = f[<<i, h>>]
        /\ ~ (i >= j) /\ h \notin T => f[<<i, j>>] = f[<<h + 1, j>>]
    BY <1>1, <2>2, <2>h, BisectsAt, SMT
  <2>5. ~ (i >= j)
    BY <2>2, <2>4, SMT
  <2>6. h \in Nat /\ i <= h /\ h < j
    BY <2>5, <2>h, Halves, SMT
  <2>7. CASE h \in T
    <3>1. h \in 0 .. n /\ m <= h /\ h - i < d
      BY <2>2, <2>6, <2>7, SMT DEF T
    <3> QED
      BY <2>2, <2>3, <2>4, <2>5, <2>7, <3>1
  <2>8. CASE h \notin T
    <3>1. h + 1 \in 0 .. n /\ h + 1 <= m /\ j - (h + 1) < d
      BY <2>2, <2>6, <2>8, SMT DEF T
    <3> QED
      BY <2>2, <2>3, <2>4, <2>5, <2>8, <3>1
  <2> QED
    BY <2>7, <2>8
<1>3. f[<<0, n>>] = m
  <2>1. 0 \in 0 .. n /\ n \in 0 .. n /\ 0 <= m /\ m <= n /\ n - 0 \in Nat
    BY SMT
  <2> QED
    BY <1>2, <2>1
<1> QED
  BY <1>1, <1>3 DEF T

LEMMA SearchUp ==
    ASSUME NEW n \in Nat, NEW T, T \subseteq 0 .. n - 1,
           \A i \in T : \A j \in i .. n - 1 : j \in T
    PROVE  /\ Search(n, T) \in 0 .. n
           /\ \A i \in 0 .. n - 1 : i \in T <=> Search(n, T) <= i
<1> DEFINE S == T \cup {n}
<1>1. S \subseteq Nat /\ S # {}
  BY SMT
<1>2. PICK m \in S : \A k \in S : m <= k
  BY <1>1, LeastNat
<1>3. m \in 0 .. n
  BY <1>2, SMT
<1>4. T = m .. n - 1
  <2>1. ASSUME NEW i \in T PROVE i \in m .. n - 1
    <3>1. m <= i /\ i \in 0 .. n - 1
      BY <1>2
    <3> QED
      BY <1>3, <3>1, SMT
  <2>2. ASSUME NEW i \in m .. n - 1 PROVE i \in T
    <3>1. m # n
      BY <1>3, SMT
    <3> QED
      BY <3>1
  <2> QED
    BY <2>1, <2>2
<1>5. Search(n, T) = m
  BY <1>3, <1>4, SearchFinds
<1> QED
  BY <1>3, <1>4, <1>5, SMT

Ascends(s) == \A i, j \in 1 .. Len(s) : i <= j => s[i] <= s[j]

\* SearchStrings splits a sorted list into what is below a and the rest.
LEMMA SearchSplits ==
    ASSUME NEW s \in Seq(Nodes), Ascends(s), NEW a \in Nodes
    PROVE  /\ SearchStrings(s, a) \in 0 .. Len(s)
           /\ \A j \in 1 .. Len(s) : s[j] < a <=> j <= SearchStrings(s, a)
<1> DEFINE n == Len(s)
           T == {i \in 0 .. n - 1 : s[i + 1] >= a}
<1>1. n \in Nat /\ \A i \in 1 .. n : s[i] \in Nat
  BY GossipAssumption, SMT DEF Nodes
<1>2. a \in Nat
  BY GossipAssumption, SMT DEF Nodes
<1> HIDE DEF n
<1>3. ASSUME NEW i \in T, NEW j \in i .. n - 1 PROVE j \in T
  <2>1. /\ j \in 0 .. n - 1 /\ i + 1 \in 1 .. n /\ j + 1 \in 1 .. n /\ i + 1 <= j + 1
        /\ s[i + 1] >= a
    BY <1>1, SMT
  <2>2. s[i + 1] <= s[j + 1]
    BY <2>1 DEF Ascends, n
  <2>3. s[i + 1] \in Nat /\ s[j + 1] \in Nat
    BY <1>1, <2>1
  <2>4. s[j + 1] >= a
    BY <1>2, <2>1, <2>2, <2>3, SMT
  <2> QED
    BY <2>1, <2>4
<1>4. T \subseteq 0 .. n - 1
  OBVIOUS
<1> DEFINE k == Search(n, T)
<1>5. SearchStrings(s, a) = k
  BY DEF SearchStrings, n
<1>6. k \in 0 .. n /\ \A i \in 0 .. n - 1 : i \in T <=> k <= i
  <2> HIDE DEF T
  <2> QED
    BY <1>1, <1>3, <1>4, SearchUp
<1> HIDE DEF k
<1>7. ASSUME NEW j \in 1 .. n PROVE s[j] < a <=> j <= k
  <2>1. j - 1 \in 0 .. n - 1 /\ (j - 1) + 1 = j
    BY <1>1, SMT
  <2>2. s[j] >= a <=> k <= j - 1
    BY <1>6, <2>1
  <2>3. s[j] \in Nat
    BY <1>1
  <2> QED
    BY <1>1, <1>2, <1>6, <2>2, <2>3, SMT
<1> QED
  BY <1>5, <1>6, <1>7 DEF n

-----------------------------------------------------------------------------
(* The place of an address in a view *)

\* The order of the addresses, from n on
Turn(n, a) == IF a >= n THEN a ELSE a + N

\* From n on, the addresses ascend and wrap around once.
InOrder(view, n) ==
    /\ view \in Seq(Nodes) /\ Len(view) > 0 /\ view[1] = n
    /\ \A i, j \in 1 .. Len(view) : i <= j => Turn(n, view[i]) <= Turn(n, view[j])

LEMMA IndexPlace ==
    ASSUME NEW n \in Nodes, NEW view, InOrder(view, n), NEW a \in Nodes, a # n
    PROVE  /\ getAddrIndex(view, a) \in 1 .. Len(view)
           /\ \A j \in 1 .. Len(view) :
                Turn(n, view[j]) < Turn(n, a) <=> j <= getAddrIndex(view, a)
<1> DEFINE len == Len(view)
           T == {i \in 0 .. len - 1 : view[i + 1] < view[1]}
           w == Search(len, T)
           front == SubSeq(view, 1, w)
           back == SubSeq(view, w + 1, len)
<1>0. N \in Nat /\ n \in 1 .. N /\ a \in 1 .. N
  BY GossipAssumption DEF Nodes
<1>1. /\ view \in Seq(Nodes) /\ view[1] = n /\ len \in Nat /\ len > 0
      /\ \A j \in 1 .. len : view[j] \in 1 .. N
  <2>1. view \in Seq(Nodes) /\ len > 0 /\ view[1] = n
    BY DEF InOrder
  <2>2. Len(view) \in Nat /\ \A j \in 1 .. Len(view) : view[j] \in Nodes
    BY <2>1, SMT
  <2> QED
    BY <2>1, <2>2 DEF Nodes
<1> HIDE DEF len
<1>2. ASSUME NEW i \in T, NEW j \in i .. len - 1 PROVE j \in T
  <2>1. /\ j \in 0 .. len - 1 /\ i + 1 \in 1 .. len /\ j + 1 \in 1 .. len /\ i + 1 <= j + 1
        /\ view[i + 1] < n
    BY <1>1, SMT
  <2>2. Turn(n, view[i + 1]) <= Turn(n, view[j + 1])
    BY <2>1 DEF InOrder, len
  <2>3. view[i + 1] \in 1 .. N /\ view[j + 1] \in 1 .. N
    BY <1>1, <2>1
  <2>4. view[j + 1] < n
    BY <1>0, <2>1, <2>2, <2>3, SMT DEF Turn
  <2> QED
    BY <1>1, <2>1, <2>4
<1>3. w \in 0 .. len /\ \A i \in 0 .. len - 1 : i \in T <=> w <= i
  <2>1. T \subseteq 0 .. len - 1
    OBVIOUS
  <2> HIDE DEF T
  <2> QED
    BY <1>1, <1>2, <2>1, SearchUp
<1>w. w = Search(len, T)
  OBVIOUS
<1> HIDE DEF w
<1>4. ASSUME NEW j \in 1 .. len
      PROVE  view[j] < n <=> w < j
  <2>1. j - 1 \in 0 .. len - 1 /\ (j - 1) + 1 = j
    BY <1>1, SMT
  <2>2. view[j] < n <=> w <= j - 1
    BY <1>1, <1>3, <2>1
  <2> QED
    BY <1>3, <2>2, SMT
<1>5. w >= 1
  <2>1. 1 \in 1 .. len /\ ~ (n < n)
    BY <1>0, <1>1, SMT
  <2>2. ~ (w < 1)
    BY <1>1, <1>4, <2>1
  <2> QED
    BY <1>3, <2>2, SMT
<1>6. /\ front \in Seq(Nodes) /\ Len(front) = w /\ \A j \in 1 .. w : front[j] = view[j]
  BY <1>1, <1>3, SMT DEF len
<1>7. /\ back \in Seq(Nodes) /\ Len(back) = len - w
      /\ \A j \in 1 .. len - w : back[j] = view[w + j]
  BY <1>1, <1>3, SMT DEF len
<1> HIDE DEF front, back
<1>8. Ascends(front)
  <2> SUFFICES ASSUME NEW i \in 1 .. w, NEW j \in 1 .. w, i <= j
               PROVE  front[i] <= front[j]
    BY <1>6 DEF Ascends
  <2>1. i \in 1 .. len /\ j \in 1 .. len /\ ~ (w < i) /\ ~ (w < j)
    BY <1>1, <1>3, SMT
  <2>2. Turn(n, view[i]) <= Turn(n, view[j]) /\ ~ (view[i] < n) /\ ~ (view[j] < n)
    BY <1>4, <2>1 DEF InOrder, len
  <2>3. view[i] \in 1 .. N /\ view[j] \in 1 .. N
    BY <1>1, <2>1
  <2> QED
    BY <1>0, <1>6, <2>2, <2>3, SMT DEF Turn
<1>9. Ascends(back)
  <2> SUFFICES ASSUME NEW i \in 1 .. len - w, NEW j \in 1 .. len - w, i <= j
               PROVE  back[i] <= back[j]
    BY <1>7 DEF Ascends
  <2>1. w + i \in 1 .. len /\ w + j \in 1 .. len /\ w < w + i /\ w < w + j /\ w + i <= w + j
    BY <1>1, <1>3, SMT
  <2>2. Turn(n, view[w + i]) <= Turn(n, view[w + j]) /\ view[w + i] < n /\ view[w + j] < n
    BY <1>4, <2>1 DEF InOrder, len
  <2>3. view[w + i] \in 1 .. N /\ view[w + j] \in 1 .. N
    BY <1>1, <2>1
  <2> QED
    BY <1>0, <1>7, <2>2, <2>3, SMT DEF Turn
<1> DEFINE f == SearchStrings(front, a)
           b == SearchStrings(back, a)
<1>10. getAddrIndex(view, a) = IF f # 0 THEN f ELSE w + b
  BY <1>w DEF getAddrIndex, front, back, len
<1>11. f \in 0 .. w /\ \A j \in 1 .. w : view[j] < a <=> j <= f
  BY <1>6, <1>8, SearchSplits
<1>12. b \in 0 .. len - w /\ \A j \in 1 .. len - w : view[w + j] < a <=> j <= b
  BY <1>7, <1>9, SearchSplits
<1> HIDE DEF f, b
<1>13. CASE a > n
  <2>1. f >= 1 /\ getAddrIndex(view, a) = f
    <3>1. 1 \in 1 .. w /\ view[1] < a
      BY <1>0, <1>1, <1>3, <1>5, <1>13, SMT
    <3>2. 1 <= f
      BY <1>11, <3>1
    <3> QED
      BY <1>10, <1>11, <3>2, SMT
  <2>2. ASSUME NEW j \in 1 .. len
        PROVE  Turn(n, view[j]) < Turn(n, a) <=> j <= f
    <3>0. view[j] \in 1 .. N
      BY <1>1
    <3>1. CASE j <= w
      <4>1. j \in 1 .. w /\ ~ (w < j)
        BY <1>1, <1>3, <3>1, SMT
      <4>2. ~ (view[j] < n) /\ (view[j] < a <=> j <= f)
        BY <1>4, <1>11, <4>1
      <4> QED
        BY <1>0, <1>13, <3>0, <4>2, SMT DEF Turn
    <3>2. CASE ~ (j <= w)
      <4>1. w < j /\ ~ (j <= f)
        BY <1>1, <1>3, <1>11, <3>2, SMT
      <4>2. view[j] < n
        BY <1>4, <4>1
      <4> QED
        BY <1>0, <1>13, <3>0, <4>1, <4>2, SMT DEF Turn
    <3> QED
      BY <3>1, <3>2
  <2>3. f \in 1 .. len
    BY <1>1, <1>3, <1>11, <2>1, SMT
  <2> QED
    BY <2>1, <2>2, <2>3 DEF len
<1>14. CASE ~ (a > n)
  <2>0. a < n
    BY <1>0, <1>14, SMT
  <2>1. f = 0 /\ getAddrIndex(view, a) = w + b
    <3>1. 1 \in 1 .. w /\ ~ (view[1] < a)
      BY <1>0, <1>1, <1>3, <1>5, <2>0, SMT
    <3>2. ~ (1 <= f)
      BY <1>11, <3>1
    <3>3. f = 0
      BY <1>3, <1>11, <3>2, SMT
    <3> QED
      BY <1>10, <3>3
  <2>2. ASSUME NEW j \in 1 .. len
        PROVE  Turn(n, view[j]) < Turn(n, a) <=> j <= w + b
    <3>0. view[j] \in 1 .. N
      BY <1>1
    <3>1. CASE j <= w
      <4>1. ~ (w < j) /\ j <= w + b
        BY <1>1, <1>3, <1>12, <3>1, SMT
      <4>2. ~ (view[j] < n)
        BY <1>4, <4>1
      <4> QED
        BY <1>0, <2>0, <3>0, <4>1, <4>2, SMT DEF Turn
    <3>2. CASE ~ (j <= w)
      <4>1. w < j /\ j - w \in 1 .. len - w /\ w + (j - w) = j
        BY <1>1, <1>3, <3>2, SMT
      <4>2. view[j] < n /\ (view[j] < a <=> j - w <= b)
        BY <1>4, <1>12, <4>1
      <4> QED
        BY <1>0, <1>3, <1>12, <2>0, <3>0, <4>1, <4>2, SMT DEF Turn
    <3> QED
      BY <3>1, <3>2
  <2>3. w + b \in 1 .. len
    BY <1>1, <1>3, <1>5, <1>12, SMT
  <2> QED
    BY <2>1, <2>2, <2>3 DEF len
<1> QED
  BY <1>13, <1>14

LEMMA ConcatFacts ==
    ASSUME NEW s \in Seq(Nodes), NEW t \in Seq(Nodes)
    PROVE  /\ s \o t \in Seq(Nodes) /\ Len(s \o t) = Len(s) + Len(t)
           /\ \A j \in 1 .. Len(s) : (s \o t)[j] = s[j]
           /\ \A j \in 1 .. Len(t) : (s \o t)[Len(s) + j] = t[j]
<1>1. s \o t \in Seq(Nodes) /\ Len(s \o t) = Len(s) + Len(t)
  BY SMT
<1>2. \A j \in 1 .. Len(s) : (s \o t)[j] = s[j]
  BY SMT
<1>3. \A j \in 1 .. Len(t) : (s \o t)[Len(s) + j] = t[j]
  BY SMT
<1> QED
  BY <1>1, <1>2, <1>3

LEMMA InsertFacts ==
    ASSUME NEW s \in Seq(Nodes), NEW i \in 1 .. Len(s), NEW a \in Nodes
    PROVE  LET q == insertElementAtIndex(s, a, i)
           IN  /\ q \in Seq(Nodes) /\ Len(q) = Len(s) + 1 /\ q[i + 1] = a
               /\ \A j \in 1 .. i : q[j] = s[j]
               /\ \A j \in i + 1 .. Len(s) : q[j + 1] = s[j]
<1> DEFINE f == SubSeq(s, 1, i)
           g == f \o <<a>>
           b == SubSeq(s, i + 1, Len(s))
           q == g \o b
<1>1. f \in Seq(Nodes) /\ Len(f) = i /\ \A j \in 1 .. i : f[j] = s[j]
  BY SMT
<1>2. /\ b \in Seq(Nodes) /\ Len(b) = Len(s) - i
      /\ \A j \in 1 .. Len(s) - i : b[j] = s[i + j]
  BY SMT
<1> HIDE DEF f, b
<1>3. /\ g \in Seq(Nodes) /\ Len(g) = i + 1 /\ g[i + 1] = a
      /\ \A j \in 1 .. i : g[j] = s[j]
  BY <1>1, SMT
<1> HIDE DEF g
<1>4. /\ q \in Seq(Nodes) /\ Len(q) = Len(s) + 1
      /\ \A j \in 1 .. i + 1 : q[j] = g[j]
      /\ \A j \in 1 .. Len(s) - i : q[i + 1 + j] = b[j]
  <2>1. Len(g) + Len(b) = Len(s) + 1
    BY <1>2, <1>3, SMT
  <2>2. /\ q \in Seq(Nodes) /\ Len(q) = Len(g) + Len(b)
        /\ \A j \in 1 .. Len(g) : q[j] = g[j]
        /\ \A j \in 1 .. Len(b) : q[Len(g) + j] = b[j]
    BY <1>2, <1>3, ConcatFacts
  <2> HIDE DEF q
  <2> QED
    BY <1>2, <1>3, <2>1, <2>2
<1>5. insertElementAtIndex(s, a, i) = q
  BY DEF insertElementAtIndex, q, g, b, f
<1> HIDE DEF q
<1>6. ASSUME NEW j \in i + 1 .. Len(s) PROVE q[j + 1] = s[j]
  <2>1. j - i \in 1 .. Len(s) - i /\ i + (j - i) = j /\ i + 1 + (j - i) = j + 1
    BY SMT
  <2>2. q[i + 1 + (j - i)] = b[j - i] /\ b[j - i] = s[i + (j - i)]
    BY <1>2, <1>4, <2>1
  <2> QED
    BY <2>1, <2>2
<1>7. \A j \in 1 .. i : q[j] = s[j]
  BY <1>3, <1>4, SMT
<1>8. q[i + 1] = a
  BY <1>3, <1>4, SMT
<1> QED
  BY <1>4, <1>5, <1>6, <1>7, <1>8

LEMMA RemoveFacts ==
    ASSUME NEW s \in Seq(Nodes), NEW i \in 1 .. Len(s) - 1
    PROVE  LET q == removeElementAtIndex(s, i)
           IN  /\ q \in Seq(Nodes) /\ Len(q) = Len(s) - 1
               /\ \A j \in 1 .. i : q[j] = s[j]
               /\ \A j \in i + 1 .. Len(q) : q[j] = s[j + 1]
<1> DEFINE f == SubSeq(s, 1, i)
           b == SubSeq(s, i + 2, Len(s))
           q == f \o b
<1>1. f \in Seq(Nodes) /\ Len(f) = i /\ \A j \in 1 .. i : f[j] = s[j]
  BY SMT
<1>2. /\ b \in Seq(Nodes) /\ Len(b) = Len(s) - i - 1
      /\ \A j \in 1 .. Len(s) - i - 1 : b[j] = s[i + 1 + j]
  BY SMT
<1> HIDE DEF f, b
<1>3. /\ q \in Seq(Nodes) /\ Len(q) = Len(s) - 1
      /\ \A j \in 1 .. i : q[j] = f[j]
      /\ \A j \in 1 .. Len(s) - i - 1 : q[i + j] = b[j]
  <2>1. Len(f) + Len(b) = Len(s) - 1
    BY <1>1, <1>2, SMT
  <2>2. /\ q \in Seq(Nodes) /\ Len(q) = Len(f) + Len(b)
        /\ \A j \in 1 .. Len(f) : q[j] = f[j]
        /\ \A j \in 1 .. Len(b) : q[Len(f) + j] = b[j]
    BY <1>1, <1>2, ConcatFacts
  <2> HIDE DEF q
  <2> QED
    BY <1>1, <1>2, <2>1, <2>2
<1>4. removeElementAtIndex(s, i) = q
  BY DEF removeElementAtIndex, q, b, f
<1> HIDE DEF q
<1>5. ASSUME NEW j \in i + 1 .. Len(s) - 1 PROVE q[j] = s[j + 1]
  <2>1. j - i \in 1 .. Len(s) - i - 1 /\ i + (j - i) = j /\ i + 1 + (j - i) = j + 1
    BY SMT
  <2>2. q[i + (j - i)] = b[j - i] /\ b[j - i] = s[i + 1 + (j - i)]
    BY <1>2, <1>3, <2>1
  <2> QED
    BY <2>1, <2>2
<1>6. \A j \in 1 .. i : q[j] = s[j]
  BY <1>1, <1>3
<1> QED
  BY <1>3, <1>4, <1>5, <1>6

LEMMA AddInOrder ==
    ASSUME NEW n \in Nodes, NEW view, InOrder(view, n), NEW a \in Nodes, a # n
    PROVE  /\ InOrder(ViewAdd(view, a), n)
           /\ Range(view) \cup {a} \subseteq Range(ViewAdd(view, a))
<1> DEFINE i == getAddrIndex(view, a)
           q == insertElementAtIndex(view, a, i)
           len == Len(view)
           t(j) == Turn(n, view[j])
           u(j) == Turn(n, q[j])
<1>1. i \in 1 .. len /\ \A j \in 1 .. len : t(j) < Turn(n, a) <=> j <= i
  BY IndexPlace
<1>2. /\ view \in Seq(Nodes) /\ view[1] = n /\ len \in Nat
      /\ DOMAIN view = 1 .. len
      /\ \A j, k \in 1 .. len : j <= k => t(j) <= t(k)
  <2>1. view \in Seq(Nodes)
    BY DEF InOrder
  <2>2. len \in Nat /\ DOMAIN view = 1 .. len
    BY <2>1, SMT
  <2> QED
    BY <2>1, <2>2 DEF InOrder
<1> HIDE DEF i
<1>3. /\ q \in Seq(Nodes) /\ Len(q) = len + 1 /\ q[i + 1] = a
      /\ \A j \in 1 .. i : q[j] = view[j]
      /\ \A j \in i + 1 .. len : q[j + 1] = view[j]
  BY <1>1, <1>2, InsertFacts, ZenonT(60)
<1>4. ViewAdd(view, a) = q
  BY DEF ViewAdd, q, i
<1>5. DOMAIN q = 1 .. len + 1
  BY <1>3, SMT
<1> HIDE DEF q, len
<1>6. /\ \A j \in 1 .. i : u(j) = t(j)
      /\ u(i + 1) = Turn(n, a)
      /\ \A j \in i + 1 .. len : u(j + 1) = t(j)
  BY <1>3
<1>7. \A j \in 1 .. len : t(j) \in Nat
  <2>1. \A j \in 1 .. len : view[j] \in Nodes
    BY <1>2, SMT DEF len
  <2> QED
    BY <2>1, GossipAssumption, SMT DEF Nodes, Turn
<1>8. Turn(n, a) \in Nat
  BY GossipAssumption, SMT DEF Nodes, Turn
<1> HIDE DEF t, u
<1>9. ASSUME NEW j \in 1 .. len + 1, NEW k \in 1 .. len + 1, j <= k
      PROVE  u(j) <= u(k)
  <2>1. CASE k <= i
    <3>1. j \in 1 .. i /\ k \in 1 .. i /\ j \in 1 .. len /\ k \in 1 .. len
      BY <1>1, <1>2, <1>9, <2>1, SMT
    <3> QED
      BY <1>2, <1>6, <1>9, <3>1
  <2>2. CASE k = i + 1
    <3>1. CASE j = i + 1
      BY <1>6, <1>8, <2>2, <3>1, SMT
    <3>2. CASE j # i + 1
      <4>1. j \in 1 .. i /\ j \in 1 .. len /\ j <= i
        BY <1>1, <1>2, <1>9, <2>2, <3>2, SMT
      <4>2. u(j) = t(j) /\ t(j) < Turn(n, a) /\ u(k) = Turn(n, a) /\ t(j) \in Nat
        BY <1>1, <1>6, <1>7, <2>2, <4>1
      <4> QED
        BY <1>8, <4>2, SMT
    <3> QED
      BY <3>1, <3>2
  <2>3. CASE k > i + 1
    <3>1. k - 1 \in i + 1 .. len /\ k - 1 \in 1 .. len /\ (k - 1) + 1 = k /\ ~ (k - 1 <= i)
      BY <1>1, <1>2, <2>3, SMT
    <3>2. u(k) = t(k - 1) /\ ~ (t(k - 1) < Turn(n, a)) /\ t(k - 1) \in Nat
      BY <1>1, <1>6, <1>7, <3>1
    <3>3. CASE j <= i
      <4>1. j \in 1 .. i /\ j \in 1 .. len /\ j <= k - 1
        BY <1>1, <1>2, <2>3, <3>3, SMT
      <4> QED
        BY <1>2, <1>6, <3>1, <3>2, <4>1
    <3>4. CASE j = i + 1
      BY <1>6, <1>8, <3>2, <3>4, SMT
    <3>5. CASE j > i + 1
      <4>1. j - 1 \in i + 1 .. len /\ j - 1 \in 1 .. len /\ (j - 1) + 1 = j /\ j - 1 <= k - 1
        BY <1>1, <1>2, <1>9, <3>5, SMT
      <4>2. u(j) = t(j - 1) /\ t(j - 1) <= t(k - 1)
        BY <1>2, <1>6, <3>1, <4>1
      <4> QED
        BY <3>2, <4>2
    <3>6. j <= i \/ j = i + 1 \/ j > i + 1
      BY <1>1, SMT
    <3> QED
      BY <3>3, <3>4, <3>5, <3>6
  <2>4. k <= i \/ k = i + 1 \/ k > i + 1
    BY <1>1, SMT
  <2> QED
    BY <2>1, <2>2, <2>3, <2>4
<1>10. q[1] = n /\ Len(q) > 0
  <2>1. 1 \in 1 .. i /\ len + 1 > 0
    BY <1>1, <1>2, SMT
  <2> QED
    BY <1>2, <1>3, <2>1
<1>11. InOrder(q, n)
  BY <1>3, <1>9, <1>10 DEF InOrder, u
<1>12. ASSUME NEW j \in 1 .. len PROVE view[j] \in Range(q)
  <2>1. CASE j <= i
    <3>1. j \in 1 .. i /\ j \in 1 .. len + 1
      BY <1>1, <1>2, <2>1, SMT
    <3> QED
      BY <1>3, <1>5, <3>1 DEF Range
  <2>2. CASE ~ (j <= i)
    <3>1. j \in i + 1 .. len /\ j + 1 \in 1 .. len + 1
      BY <1>1, <1>2, <2>2, SMT
    <3> QED
      BY <1>3, <1>5, <3>1 DEF Range
  <2> QED
    BY <2>1, <2>2
<1>13. a \in Range(q)
  <2>1. i + 1 \in 1 .. len + 1
    BY <1>1, <1>2, SMT
  <2> QED
    BY <1>3, <1>5, <2>1 DEF Range
<1>14. Range(view) \subseteq Range(q)
  BY <1>2, <1>12 DEF Range
<1> QED
  BY <1>4, <1>11, <1>13, <1>14

LEMMA RemoveInOrder ==
    ASSUME NEW n \in Nodes, NEW view, InOrder(view, n), NEW a \in Range(view), a # n
    PROVE  /\ InOrder(ViewRemove(view, a), n)
           /\ Range(view) \ {a} \subseteq Range(ViewRemove(view, a))
<1> DEFINE i == getAddrIndex(view, a)
           q == removeElementAtIndex(view, i)
           len == Len(view)
           t(j) == Turn(n, view[j])
<1>2. /\ view \in Seq(Nodes) /\ view[1] = n /\ len \in Nat
      /\ DOMAIN view = 1 .. len /\ \A j \in 1 .. len : view[j] \in Nodes
      /\ \A j, k \in 1 .. len : j <= k => t(j) <= t(k)
  <2>1. view \in Seq(Nodes)
    BY DEF InOrder
  <2>2. len \in Nat /\ DOMAIN view = 1 .. len /\ \A j \in 1 .. len : view[j] \in Nodes
    BY <2>1, SMT
  <2> QED
    BY <2>1, <2>2 DEF InOrder
<1>0. PICK c \in 1 .. len : view[c] = a
  BY <1>2 DEF Range
<1>a. a \in Nodes
  BY <1>0, <1>2
<1>1. i \in 1 .. len /\ \A j \in 1 .. len : t(j) < Turn(n, a) <=> j <= i
  BY <1>a, IndexPlace
<1>4. ViewRemove(view, a) = IF i = len THEN view ELSE q
  BY DEF ViewRemove, q, i
<1> HIDE DEF i
<1>t. \A x \in Nodes : Turn(n, x) \in Nat /\ (Turn(n, x) = Turn(n, a) => x = a)
  BY <1>a, GossipAssumption, SMT DEF Nodes, Turn
<1>5. c > i
  <2>1. ~ (t(c) < Turn(n, a))
    <3>1. t(c) = Turn(n, a) /\ Turn(n, a) \in Nat
      BY <1>0, <1>a, <1>t
    <3> HIDE DEF t
    <3> QED
      BY <3>1, SMT
  <2>2. ~ (c <= i)
    BY <1>0, <1>1, <2>1
  <2> QED
    BY <1>1, <2>2, SMT
<1>6. i \in 1 .. len - 1 /\ i + 1 \in 1 .. len /\ i + 1 <= c /\ ~ (i + 1 <= i)
  BY <1>1, <1>2, <1>5, SMT
<1>7. view[i + 1] = a
  <2>1. t(i + 1) <= t(c) /\ ~ (t(i + 1) < Turn(n, a)) /\ t(c) = Turn(n, a)
    BY <1>0, <1>1, <1>2, <1>6
  <2>2. view[i + 1] \in Nodes
    BY <1>2, <1>6
  <2>3. t(i + 1) \in Nat /\ Turn(n, a) \in Nat
    BY <1>a, <1>t, <2>2
  <2>4. t(i + 1) = Turn(n, a)
    <3> HIDE DEF t
    <3> QED
      BY <2>1, <2>3, SMT
  <2> QED
    BY <1>t, <2>2, <2>4
<1>3. /\ q \in Seq(Nodes) /\ Len(q) = len - 1
      /\ \A j \in 1 .. i : q[j] = view[j]
      /\ \A j \in i + 1 .. Len(q) : q[j] = view[j + 1]
  BY <1>2, <1>6, RemoveFacts
<1>8. DOMAIN q = 1 .. len - 1
  BY <1>3, SMT
<1>9. ViewRemove(view, a) = q
  <2>1. i # len
    <3>1. len \in Nat /\ i \in 1 .. len - 1
      BY <1>2, <1>6
    <3> HIDE DEF len
    <3> QED
      BY <3>1, SMT
  <2> QED
    BY <1>4, <2>1
<1> HIDE DEF q, len
<1> DEFINE at(j) == IF j <= i THEN j ELSE j + 1
<1>10. ASSUME NEW j \in 1 .. len - 1
       PROVE  at(j) \in 1 .. len /\ q[j] = view[at(j)]
  <2>1. CASE j <= i
    <3>1. j \in 1 .. i /\ j \in 1 .. len
      BY <1>1, <1>2, <2>1, SMT
    <3> QED
      BY <1>3, <2>1, <3>1
  <2>2. CASE ~ (j <= i)
    <3>1. j \in i + 1 .. Len(q) /\ j + 1 \in 1 .. len
      BY <1>1, <1>2, <1>3, <2>2, SMT
    <3> QED
      BY <1>3, <2>2, <3>1
  <2> QED
    BY <2>1, <2>2
<1>11. ASSUME NEW j \in 1 .. len - 1, NEW k \in 1 .. len - 1, j <= k
       PROVE  Turn(n, q[j]) <= Turn(n, q[k])
  <2>1. at(j) <= at(k)
    BY <1>1, <1>2, <1>11, SMT
  <2>2. at(j) \in 1 .. len /\ at(k) \in 1 .. len /\ q[j] = view[at(j)] /\ q[k] = view[at(k)]
    BY <1>10
  <2> HIDE DEF at
  <2> QED
    BY <1>2, <2>1, <2>2
<1>12. q[1] = n /\ Len(q) > 0
  <2>1. 1 \in 1 .. i /\ len - 1 > 0
    BY <1>1, <1>2, <1>6, SMT
  <2> QED
    BY <1>2, <1>3, <2>1
<1>13. InOrder(q, n)
  BY <1>3, <1>11, <1>12 DEF InOrder
<1>14. ASSUME NEW j \in 1 .. len, view[j] # a PROVE view[j] \in Range(q)
  <2>0. j # i + 1
    BY <1>7, <1>14
  <2>1. CASE j <= i
    <3>1. j \in 1 .. i /\ j \in 1 .. len - 1
      BY <1>1, <1>2, <1>6, <2>1, SMT
    <3> QED
      BY <1>3, <1>8, <3>1 DEF Range
  <2>2. CASE ~ (j <= i)
    <3>1. j - 1 \in i + 1 .. Len(q) /\ j - 1 \in 1 .. len - 1 /\ (j - 1) + 1 = j
      BY <1>1, <1>2, <1>3, <2>0, <2>2, SMT
    <3> QED
      BY <1>3, <1>8, <3>1 DEF Range
  <2> QED
    BY <2>1, <2>2
<1>15. Range(view) \ {a} \subseteq Range(q)
  BY <1>2, <1>14 DEF Range
<1> QED
  BY <1>9, <1>13, <1>15

SortedList(s, S) ==
    /\ s \in [1 .. Cardinality(S) -> S]
    /\ \A i, j \in DOMAIN s : i < j => s[i] < s[j]

LEMMA NodesFinite ==
    ASSUME NEW S, S \subseteq Nodes
    PROVE  IsFiniteSet(S) /\ Cardinality(S) \in Nat
<1>0. 1 \in Int /\ N \in Int
  BY GossipAssumption, SMT
<1>1. IsFiniteSet(Nodes)
  BY <1>0, FS_Interval DEF Nodes
<1> QED
  BY <1>1, FS_Subset, FS_CardinalityType

LEMMA AddLargest ==
    ASSUME NEW S, S \subseteq Nodes, NEW k \in Nodes, \A a \in S : a < k,
           NEW s, SortedList(s, S)
    PROVE  \E t : SortedList(t, S \cup {k})
<1> DEFINE c == Cardinality(S)
           T == S \cup {k}
           t == [i \in 1 .. c + 1 |-> IF i = c + 1 THEN k ELSE s[i]]
<1>1. c \in Nat /\ IsFiniteSet(S)
  BY NodesFinite
<1>2. k \notin S
  <2>1. k \in Nat
    BY GossipAssumption, SMT DEF Nodes
  <2>2. ~ (k < k)
    BY <2>1, SMT
  <2> QED
    BY <2>2
<1>3. Cardinality(T) = c + 1
  BY <1>1, <1>2, FS_AddElement
<1>4. \A i \in 1 .. c : s[i] \in S
  BY DEF SortedList
<1>5. DOMAIN s = 1 .. c
  BY DEF SortedList
<1>6. t \in [1 .. c + 1 -> T]
  <2> SUFFICES ASSUME NEW i \in 1 .. c + 1, i # c + 1 PROVE s[i] \in S
    OBVIOUS
  <2>1. i \in 1 .. c
    BY <1>1, SMT
  <2> QED
    BY <1>4, <2>1
<1>7. ASSUME NEW i \in 1 .. c + 1, NEW j \in 1 .. c + 1, i < j
      PROVE  t[i] < t[j]
  <2>1. i \in 1 .. c /\ i # c + 1 /\ (j \in 1 .. c \/ j = c + 1)
    BY <1>1, <1>7, SMT
  <2>2. t[i] = s[i]
    BY <2>1
  <2>3. CASE j = c + 1
    BY <1>4, <2>1, <2>2, <2>3
  <2>4. CASE j # c + 1
    <3>1. t[j] = s[j] /\ j \in 1 .. c
      BY <2>1, <2>4
    <3> QED
      BY <1>5, <1>7, <2>1, <2>2, <3>1 DEF SortedList
  <2> QED
    BY <2>3, <2>4
<1>8. DOMAIN t = 1 .. c + 1
  OBVIOUS
<1> HIDE DEF t, c
<1>9. SortedList(t, T)
  BY <1>3, <1>6, <1>7, <1>8 DEF SortedList
<1> QED
  BY <1>9

LEMMA SortedExists ==
    ASSUME NEW S, S \subseteq Nodes
    PROVE  \E s : SortedList(s, S)
<1> DEFINE Bad == {k \in 0 .. N : ~ \E s : SortedList(s, S \cap (1 .. k))}
<1>0. N \in Nat
  BY GossipAssumption
<1>1. Bad = {}
  <2> SUFFICES ASSUME Bad # {} PROVE FALSE
    OBVIOUS
  <2>1. PICK k \in Bad : \A j \in Bad : k <= j
    <3>1. Bad \subseteq Nat
      BY <1>0, SMT
    <3> HIDE DEF Bad
    <3> QED
      BY <3>1, LeastNat
  <2>2. k \in 0 .. N
    OBVIOUS
  <2>3. CASE k = 0
    <3>1. 1 .. k = {} /\ 1 .. 0 = {}
      BY <2>3, SMT
    <3>2. S \cap (1 .. k) = {}
      BY <3>1
    <3> DEFINE t == [i \in {} |-> 0]
    <3>3. SortedList(t, {})
      <4>1. t \in [{} -> {}] /\ DOMAIN t = {}
        OBVIOUS
      <4> HIDE DEF t
      <4> QED
        BY <3>1, <4>1, FS_EmptySet DEF SortedList
    <3> QED
      BY <3>2, <3>3
  <2>4. CASE k # 0
    <3>1. k - 1 \in 0 .. N /\ ~ (k <= k - 1) /\ k \in 1 .. N
      BY <1>0, <2>2, <2>4, SMT
    <3> DEFINE R == S \cap (1 .. k - 1)
    <3>2. PICK s : SortedList(s, R)
      BY <2>1, <3>1
    <3>3. \A a \in R : a < k
      BY <1>0, <2>2, SMT
    <3>4. 1 .. k = (1 .. k - 1) \cup {k}
      BY <1>0, <3>1, SMT
    <3>5. CASE k \in S
      <4>1. S \cap (1 .. k) = R \cup {k}
        BY <3>4, <3>5
      <4>2. R \subseteq Nodes /\ k \in Nodes
        BY <3>5
      <4> HIDE DEF R
      <4>3. \E t : SortedList(t, R \cup {k})
        BY <3>2, <3>3, <4>2, AddLargest
      <4> QED
        BY <4>1, <4>3
    <3>6. CASE k \notin S
      <4>1. S \cap (1 .. k) = R
        BY <3>4, <3>6
      <4> QED
        BY <3>2, <4>1
    <3> QED
      BY <3>5, <3>6
  <2> QED
    BY <2>3, <2>4
<1>2. N \in 0 .. N
  BY <1>0, SMT
<1>3. S \cap (1 .. N) = S
  BY DEF Nodes
<1> QED
  BY <1>1, <1>2, <1>3

LEMMA SortedFacts ==
    ASSUME NEW S, S \subseteq Nodes
    PROVE  /\ Sorted(S) \in Seq(Nodes) /\ Ascends(Sorted(S)) /\ Range(Sorted(S)) = S
<1> DEFINE c == Cardinality(S)
           s == Sorted(S)
<1>1. s \in [1 .. c -> S] /\ \A i, j \in DOMAIN s : i < j => s[i] < s[j]
  BY SortedExists DEF Sorted, SortedList
<1>2. c \in Nat /\ IsFiniteSet(S)
  BY NodesFinite
<1> HIDE DEF s
<1>3. \A i \in 1 .. c : s[i] \in Nat
  <2>1. Nodes \subseteq Nat
    BY GossipAssumption, SMT DEF Nodes
  <2> QED
    BY <1>1, <2>1
<1>4. s \in Seq(Nodes) /\ Len(s) = c
  <2>1. s \in [1 .. c -> Nodes]
    BY <1>1
  <2> HIDE DEF c
  <2> QED
    BY <1>2, <2>1, SMT
<1> HIDE DEF c
<1>5. Ascends(s)
  <2> SUFFICES ASSUME NEW i \in 1 .. c, NEW j \in 1 .. c, i <= j
               PROVE  s[i] <= s[j]
    BY <1>4 DEF Ascends
  <2>1. i < j => s[i] < s[j]
    BY <1>1
  <2>2. s[i] \in Nat /\ s[j] \in Nat
    BY <1>3
  <2> QED
    BY <1>2, <2>1, <2>2, SMT
<1>6. s \in Injection(1 .. c, S)
  <2> SUFFICES ASSUME NEW i \in 1 .. c, NEW j \in 1 .. c, s[i] = s[j]
               PROVE  i = j
    BY <1>1 DEF Injection, IsInjective
  <2>1. (i < j => s[i] < s[j]) /\ (j < i => s[j] < s[i])
    BY <1>1
  <2>2. s[i] \in Nat /\ s[j] \in Nat
    BY <1>3
  <2> QED
    BY <1>2, <2>1, <2>2, SMT
<1>7. IsFiniteSet(1 .. c) /\ Cardinality(1 .. c) = c
  <2>1. 1 \in Int /\ c \in Int /\ (1 > c => c = 0) /\ (1 <= c => (c - 1) + 1 = c)
    BY <1>2, SMT
  <2>2. /\ IsFiniteSet(1 .. c)
        /\ Cardinality(1 .. c) = IF 1 > c THEN 0 ELSE c - 1 + 1
    BY <2>1, FS_Interval
  <2> QED
    BY <1>2, <2>2, SMT
<1>8. s \in Surjection(1 .. c, S)
  BY <1>2, <1>6, <1>7, FS_Injection DEF c
<1>9. Range(s) = S
  <2>1. DOMAIN s = 1 .. c
    BY <1>1
  <2>2. \A a \in S : \E i \in 1 .. c : s[i] = a
    BY <1>8 DEF Surjection
  <2> QED
    BY <1>1, <2>1, <2>2 DEF Range
<1> QED
  BY <1>4, <1>5, <1>9 DEF s

\* The view of a new peer manager
LEMMA SortAddrsInOrder ==
    ASSUME NEW S, S \subseteq Nodes, NEW n \in S
    PROVE  InOrder(sortAddrs(n, S), n) /\ S \subseteq Range(sortAddrs(n, S))
<1> DEFINE s == Sorted(S)
           len == Len(s)
           i == SearchStrings(s, n)
           f == SubSeq(s, i + 1, len)
           b == SubSeq(s, 1, i)
           q == f \o b
<1>q. sortAddrs(n, S) = q
  BY DEF sortAddrs
<1>0. N \in Nat /\ n \in 1 .. N /\ n \in Nodes
  BY GossipAssumption DEF Nodes
<1>1. s \in Seq(Nodes) /\ Ascends(s) /\ Range(s) = S
  BY SortedFacts
<1> HIDE DEF s
<1>2. len \in Nat /\ DOMAIN s = 1 .. len /\ \A j \in 1 .. len : s[j] \in Nodes
  BY <1>1, SMT
<1>3. i \in 0 .. len /\ \A j \in 1 .. len : s[j] < n <=> j <= i
  BY <1>0, <1>1, SearchSplits
<1>4. \A j \in 1 .. len : s[j] \in 1 .. N
  BY <1>2 DEF Nodes
<1>5. \A j, k \in 1 .. len : j <= k => s[j] <= s[k]
  BY <1>1 DEF Ascends
<1> HIDE DEF i
<1>6. /\ f \in Seq(Nodes) /\ Len(f) = len - i
      /\ \A j \in 1 .. len - i : f[j] = s[i + j]
  BY <1>1, <1>3, SMT
<1>7. b \in Seq(Nodes) /\ Len(b) = i /\ \A j \in 1 .. i : b[j] = s[j]
  BY <1>1, <1>3, SMT
<1> HIDE DEF f, b
<1>8. /\ q \in Seq(Nodes) /\ Len(q) = Len(f) + Len(b)
      /\ \A j \in 1 .. Len(f) : q[j] = f[j]
      /\ \A j \in 1 .. Len(b) : q[Len(f) + j] = b[j]
  BY <1>6, <1>7, ConcatFacts
<1> HIDE DEF q, len
<1>9. Len(q) = len
  BY <1>2, <1>3, <1>6, <1>7, <1>8, SMT
<1>10. DOMAIN q = 1 .. len
  BY <1>8, <1>9, SMT
<1> DEFINE at(j) == IF j <= len - i THEN i + j ELSE j - (len - i)
<1>11. ASSUME NEW j \in 1 .. len
       PROVE  at(j) \in 1 .. len /\ q[j] = s[at(j)] /\ (at(j) <= i <=> ~ (j <= len - i))
  <2>1. CASE j <= len - i
    <3>1. j \in 1 .. len - i /\ i + j \in 1 .. len /\ ~ (i + j <= i)
      BY <1>2, <1>3, <2>1, SMT
    <3> QED
      BY <1>6, <1>8, <2>1, <3>1
  <2>2. CASE ~ (j <= len - i)
    <3>1. /\ j - (len - i) \in 1 .. i /\ (len - i) + (j - (len - i)) = j
          /\ j - (len - i) \in 1 .. len /\ j - (len - i) <= i
      BY <1>2, <1>3, <2>2, SMT
    <3>2. q[(len - i) + (j - (len - i))] = b[j - (len - i)]
      BY <1>6, <1>7, <1>8, <3>1
    <3> QED
      BY <1>7, <2>2, <3>1, <3>2
  <2> QED
    BY <2>1, <2>2
<1>12. ASSUME NEW j \in 1 .. len, NEW k \in 1 .. len, j <= k
       PROVE  Turn(n, q[j]) <= Turn(n, q[k])
  <2> DEFINE x == at(j)
             y == at(k)
  <2>1. /\ x \in 1 .. len /\ q[j] = s[x] /\ (x <= i <=> ~ (j <= len - i))
        /\ y \in 1 .. len /\ q[k] = s[y] /\ (y <= i <=> ~ (k <= len - i))
    BY <1>11
  <2>2. (x <= i <=> y <= i) => x <= y
    BY <1>2, <1>3, <1>12, SMT
  <2>3. ~ (x <= i /\ ~ (y <= i))
    BY <1>2, <1>3, <1>12, <2>1, SMT
  <2> HIDE DEF x, y, at
  <2>4. /\ s[x] \in 1 .. N /\ s[y] \in 1 .. N
        /\ (s[x] < n <=> x <= i) /\ (s[y] < n <=> y <= i)
        /\ (x <= y => s[x] <= s[y])
    BY <1>3, <1>4, <1>5, <2>1
  <2>5. Turn(n, s[x]) <= Turn(n, s[y])
    BY <1>0, <2>2, <2>3, <2>4, SMT DEF Turn
  <2> QED
    BY <2>1, <2>5
<1>13. PICK c \in 1 .. len : s[c] = n
  BY <1>1, <1>2 DEF Range
<1>14. i + 1 \in 1 .. len /\ i + 1 <= c /\ 1 \in 1 .. len /\ 1 <= len - i
  <2>1. ~ (n < n)
    BY <1>0, SMT
  <2>2. ~ (c <= i)
    BY <1>3, <1>13, <2>1
  <2> QED
    BY <1>2, <1>3, <2>2, SMT
<1>15. q[1] = n /\ Len(q) > 0
  <2>1. at(1) = i + 1
    BY <1>14
  <2>2. q[1] = s[i + 1]
    BY <1>11, <1>14, <2>1
  <2>3. ~ (i + 1 <= i)
    BY <1>3, SMT
  <2>4. s[i + 1] <= n /\ ~ (s[i + 1] < n) /\ s[i + 1] \in 1 .. N
    BY <1>3, <1>4, <1>5, <1>13, <1>14, <2>3
  <2>5. s[i + 1] = n
    BY <1>0, <2>4, SMT
  <2>6. len > 0
    BY <1>2, <1>14, SMT
  <2> QED
    BY <1>9, <2>2, <2>5, <2>6
<1>16. InOrder(q, n)
  BY <1>8, <1>9, <1>12, <1>15 DEF InOrder
<1>17. ASSUME NEW j \in 1 .. len PROVE s[j] \in Range(q)
  <2>1. CASE j <= i
    <3>1. /\ j \in 1 .. i /\ (len - i) + j \in 1 .. len
      BY <1>2, <1>3, <2>1, SMT
    <3>2. q[(len - i) + j] = s[j]
      BY <1>6, <1>7, <1>8, <3>1
    <3> QED
      BY <1>10, <3>1, <3>2 DEF Range
  <2>2. CASE ~ (j <= i)
    <3>1. j - i \in 1 .. len - i /\ i + (j - i) = j /\ j - i \in 1 .. len
      BY <1>2, <1>3, <2>2, SMT
    <3>2. q[j - i] = f[j - i] /\ f[j - i] = s[i + (j - i)]
      BY <1>6, <1>8, <3>1
    <3> QED
      BY <1>10, <3>1, <3>2 DEF Range
  <2> QED
    BY <2>1, <2>2
<1>18. S \subseteq Range(q)
  BY <1>1, <1>2, <1>17 DEF Range
<1> QED
  BY <1>q, <1>16, <1>18

-----------------------------------------------------------------------------
(* How many calls of each kind there are *)

Counted(b) == \A e \in DOMAIN b : b[e] \in Nat \ {0}

\* The calls are those there were, and no more of each, and new ones.
CallsBecome(new) ==
    /\ Counted(calls')
    /\ DOMAIN calls' \subseteq DOMAIN calls \cup new
    /\ \A e \in DOMAIN calls' \ new : calls'[e] <= calls[e]

LEMMA SetCounted ==
    ASSUME NEW S
    PROVE  Counted(SetToBag(S))
BY SMT DEF SetToBag, Counted

LEMMA EmptyCounted == Counted(EmptyBag)
BY SetCounted DEF EmptyBag

LEMMA PlusCounted ==
    ASSUME NEW A, NEW B, Counted(A), Counted(B)
    PROVE  Counted(A (+) B) /\ \A e \in DOMAIN (A (+) B) \ DOMAIN B : (A (+) B)[e] = A[e]
<1>1. DOMAIN (A (+) B) = DOMAIN A \cup DOMAIN B
  BY PlusDomain
<1>2. ASSUME NEW e \in DOMAIN A \cup DOMAIN B
      PROVE  /\ (A (+) B)[e] = (IF e \in DOMAIN A THEN A[e] ELSE 0)
                               + (IF e \in DOMAIN B THEN B[e] ELSE 0)
             /\ (A (+) B)[e] \in Nat \ {0} /\ (e \notin DOMAIN B => (A (+) B)[e] = A[e])
  <2>1. (A (+) B)[e] = (IF e \in DOMAIN A THEN A[e] ELSE 0)
                       + (IF e \in DOMAIN B THEN B[e] ELSE 0)
    BY DEF (+), Copies
  <2>2. /\ e \in DOMAIN A => A[e] \in Nat \ {0}
        /\ e \in DOMAIN B => B[e] \in Nat \ {0}
    BY DEF Counted
  <2> QED
    BY <2>1, <2>2, SMT
<1> QED
  BY <1>1, <1>2 DEF Counted

LEMMA MinusOne ==
    ASSUME NEW A, Counted(A), NEW c \in DOMAIN A
    PROVE  LET B == A (-) SetToBag({c})
           IN  /\ Counted(B) /\ DOMAIN B \subseteq DOMAIN A
               /\ \A e \in DOMAIN B : B[e] <= A[e]
               /\ A[c] = 1 => c \notin DOMAIN B
<1> DEFINE S == SetToBag({c})
           B == A (-) S
<1>1. DOMAIN S = {c}
  BY SetDomain
<1>2. S[c] = 1
  BY DEF SetToBag
<1> HIDE DEF S
<1> DEFINE left(e) == A[e] - Copies(e, S)
<1>3. /\ DOMAIN B = {e \in DOMAIN A : A[e] > Copies(e, S)}
      /\ \A e \in DOMAIN B : B[e] = left(e)
  BY DEF (-)
<1> HIDE DEF B
<1>4. ASSUME NEW e \in DOMAIN A
      PROVE  /\ left(e) \in Int /\ left(e) <= A[e] /\ (e = c => left(e) = A[e] - 1)
             /\ A[e] > Copies(e, S) <=> left(e) > 0
  <2>1. A[e] \in Nat \ {0}
    BY DEF Counted
  <2>2. Copies(e, S) = IF e = c THEN 1 ELSE 0
    BY <1>1, <1>2 DEF Copies
  <2> QED
    BY <2>1, <2>2, SMT
<1> HIDE DEF left
<1>5. \A e \in DOMAIN B : B[e] \in Nat \ {0} /\ B[e] <= A[e]
  <2> SUFFICES ASSUME NEW e \in DOMAIN B PROVE B[e] \in Nat \ {0} /\ B[e] <= A[e]
    OBVIOUS
  <2>1. left(e) > 0 /\ B[e] = left(e) /\ left(e) \in Int /\ left(e) <= A[e]
    BY <1>3, <1>4
  <2> QED
    BY <2>1, SMT
<1>6. A[c] = 1 => c \notin DOMAIN B
  <2> SUFFICES ASSUME A[c] = 1, c \in DOMAIN B PROVE FALSE
    OBVIOUS
  <2>1. left(c) > 0 /\ left(c) = A[c] - 1
    BY <1>3, <1>4
  <2> QED
    BY <2>1, SMT
<1> QED
  BY <1>3, <1>5, <1>6 DEF Counted, B, S

LEMMA AddBecomes ==
    ASSUME Counted(calls), NEW new, Counted(new), calls' = calls (+) new
    PROVE  CallsBecome(DOMAIN new)
<1> DEFINE b == calls (+) new
<1>1. Counted(b) /\ \A e \in DOMAIN b \ DOMAIN new : b[e] = calls[e]
  BY PlusCounted
<1>2. DOMAIN b = DOMAIN calls \cup DOMAIN new
  BY PlusDomain
<1> HIDE DEF b
<1>3. \A e \in DOMAIN b \ DOMAIN new : b[e] <= calls[e]
  <2> SUFFICES ASSUME NEW e \in DOMAIN b, e \notin DOMAIN new PROVE b[e] <= calls[e]
    OBVIOUS
  <2>1. b[e] = calls[e] /\ b[e] \in Nat
    BY <1>1 DEF Counted
  <2> QED
    BY <2>1, SMT
<1> QED
  BY <1>1, <1>2, <1>3 DEF CallsBecome, b

LEMMA ReplaceBecomes ==
    ASSUME Counted(calls), NEW c \in DOMAIN calls, NEW new, Counted(new), Replace(c, new)
    PROVE  CallsBecome(DOMAIN new)
<1> DEFINE a == calls (-) SetToBag({c})
           b == a (+) new
<1>0. calls' = b
  BY DEF Replace
<1>1. Counted(a) /\ DOMAIN a \subseteq DOMAIN calls /\ \A e \in DOMAIN a : a[e] <= calls[e]
  BY MinusOne
<1> HIDE DEF a
<1>2. Counted(b) /\ \A e \in DOMAIN b \ DOMAIN new : b[e] = a[e]
  BY <1>1, PlusCounted
<1>3. DOMAIN b = DOMAIN a \cup DOMAIN new
  BY PlusDomain
<1> HIDE DEF b
<1> QED
  BY <1>0, <1>1, <1>2, <1>3 DEF CallsBecome

LEMMA ReturnBecomes ==
    ASSUME Counted(calls), NEW c \in DOMAIN calls, Return(c)
    PROVE  CallsBecome({})
BY ReplaceBecomes, EmptyCounted, EmptyDomain DEF Return

LEMMA MoveBecomes ==
    ASSUME Counted(calls), NEW c \in DOMAIN calls, NEW d, Replace(c, SetToBag({d}))
    PROVE  /\ CallsBecome({d})
           /\ calls[c] = 1 /\ c # d => c \notin DOMAIN calls'
           /\ calls[c] = 1 /\ (d \in DOMAIN calls => d = c) => calls'[d] = 1
<1> DEFINE S == SetToBag({d})
           a == calls (-) SetToBag({c})
           b == a (+) S
<1>0. calls' = b /\ Replace(c, S)
  BY DEF Replace
<1>1. Counted(a) /\ DOMAIN a \subseteq DOMAIN calls /\ (calls[c] = 1 => c \notin DOMAIN a)
  BY MinusOne
<1>2. Counted(S) /\ DOMAIN S = {d} /\ S[d] = 1
  <2>1. Counted(S) /\ DOMAIN S = {d}
    BY SetCounted, SetDomain
  <2>2. S[d] = 1
    BY DEF SetToBag
  <2> QED
    BY <2>1, <2>2
<1> HIDE DEF a, S
<1>3. DOMAIN b = DOMAIN a \cup DOMAIN S
  BY PlusDomain
<1>4. d \notin DOMAIN a => b[d] = 1
  <2> SUFFICES ASSUME d \notin DOMAIN a PROVE b[d] = 1
    OBVIOUS
  <2>1. d \in DOMAIN a \cup DOMAIN S /\ d \in DOMAIN S
    BY <1>2
  <2>2. b[d] = 0 + S[d]
    BY <2>1 DEF (+), Copies
  <2> QED
    BY <2>2, <1>2, SMT
<1> HIDE DEF b
<1>5. CallsBecome({d})
  <2>1. CallsBecome(DOMAIN S)
    BY <1>0, <1>2, ReplaceBecomes
  <2> QED
    BY <1>2, <2>1
<1> QED
  BY <1>0, <1>1, <1>2, <1>3, <1>4, <1>5

-----------------------------------------------------------------------------
(* At most one call of a new height at a time *)

OneUpdate ==
    \A c \in DOMAIN calls : c.via = "update" =>
        /\ calls[c] = 1
        /\ \A d \in DOMAIN calls : d.via = "update" /\ d.at = c.at => d = c

LEMMA OneUpdateKept ==
    ASSUME Counted(calls), OneUpdate, NEW new, CallsBecome(new), \A d \in new : d.via # "update"
    PROVE  OneUpdate'
<1>1. ASSUME NEW c \in DOMAIN calls', c.via = "update"
      PROVE  c \in DOMAIN calls /\ calls'[c] = 1
  <2>1. c \in DOMAIN calls /\ c \notin new
    BY <1>1 DEF CallsBecome
  <2>2. calls[c] = 1 /\ calls'[c] <= calls[c] /\ calls'[c] \in Nat \ {0}
    BY <1>1, <2>1 DEF CallsBecome, OneUpdate, Counted
  <2> QED
    BY <2>1, <2>2, SMT
<1> QED
  BY <1>1 DEF OneUpdate

LEMMA OneUpdateMoves ==
    ASSUME Counted(calls), OneUpdate, NEW c \in DOMAIN calls, NEW d, d.via = c.via, d.at = c.at,
           Replace(c, SetToBag({d}))
    PROVE  OneUpdate' /\ (c.via = "update" /\ c # d => c \notin DOMAIN calls')
<1>1. /\ CallsBecome({d})
      /\ calls[c] = 1 /\ c # d => c \notin DOMAIN calls'
      /\ calls[c] = 1 /\ (d \in DOMAIN calls => d = c) => calls'[d] = 1
  BY MoveBecomes
<1>2. CASE c.via # "update"
  BY <1>1, <1>2, OneUpdateKept
<1>3. CASE c.via = "update"
  <2>1. calls[c] = 1 /\ (d \in DOMAIN calls => d = c)
    BY <1>3 DEF OneUpdate
  <2>2. calls'[d] = 1 /\ (c # d => c \notin DOMAIN calls')
    BY <1>1, <2>1
  <2>3. ASSUME NEW e \in DOMAIN calls', e.via = "update", e # d
        PROVE  e \in DOMAIN calls /\ calls'[e] = 1 /\ e.at # c.at
    <3>1. e \in DOMAIN calls
      BY <1>1, <2>3 DEF CallsBecome
    <3>2. e # c
      BY <2>2, <2>3
    <3>3. calls[e] = 1 /\ calls'[e] <= calls[e] /\ calls'[e] \in Nat \ {0}
      BY <1>1, <2>3, <3>1 DEF CallsBecome, OneUpdate, Counted
    <3>4. e.at # c.at
      BY <1>3, <2>3, <3>1, <3>2 DEF OneUpdate
    <3> QED
      BY <3>1, <3>3, <3>4, SMT
  <2>4. ASSUME NEW e \in DOMAIN calls', e.via = "update"
        PROVE  calls'[e] = 1
    BY <2>2, <2>3, <2>4
  <2>5. ASSUME NEW e \in DOMAIN calls', NEW f \in DOMAIN calls', e.via = "update",
               f.via = "update", f.at = e.at
        PROVE  f = e
    <3>1. CASE e # d /\ f # d
      BY <2>3, <2>5, <3>1 DEF OneUpdate
    <3>2. CASE e = d \/ f = d
      BY <2>3, <2>5, <3>2
    <3> QED
      BY <3>1, <3>2
  <2> QED
    BY <1>3, <2>2, <2>4, <2>5 DEF OneUpdate
<1> QED
  BY <1>2, <1>3

LEMMA OneUpdateStarts ==
    ASSUME Counted(calls), OneUpdate, NEW d, calls' = calls (+) SetToBag({d}),
           ~ \E c \in DOMAIN calls : c.at = d.at /\ c.via = "update"
    PROVE  CallsBecome({d}) /\ (d.via = "update" => OneUpdate')
<1> DEFINE S == SetToBag({d})
           b == calls (+) S
<1>1. Counted(S) /\ DOMAIN S = {d} /\ S[d] = 1
  <2>1. Counted(S) /\ DOMAIN S = {d}
    BY SetCounted, SetDomain
  <2>2. S[d] = 1
    BY DEF SetToBag
  <2> QED
    BY <2>1, <2>2
<1>0. calls' = b
  OBVIOUS
<1> HIDE DEF S
<1>2. CallsBecome(DOMAIN S)
  BY <1>0, <1>1, AddBecomes
<1>3. d \notin DOMAIN calls => b[d] = 1
  <2> SUFFICES ASSUME d \notin DOMAIN calls PROVE b[d] = 1
    OBVIOUS
  <2>1. d \in DOMAIN calls \cup DOMAIN S /\ d \in DOMAIN S
    BY <1>1
  <2>2. b[d] = 0 + S[d]
    BY <2>1 DEF (+), Copies
  <2> QED
    BY <2>2, <1>1, SMT
<1> HIDE DEF b
<1>4. CallsBecome({d})
  BY <1>1, <1>2
<1>5. ASSUME d.via = "update" PROVE OneUpdate'
  <2>1. d \notin DOMAIN calls /\ calls'[d] = 1
    BY <1>0, <1>3, <1>5
  <2>2. ASSUME NEW e \in DOMAIN calls', e.via = "update", e # d
        PROVE  e \in DOMAIN calls /\ calls'[e] = 1 /\ e.at # d.at
    <3>1. e \in DOMAIN calls
      BY <1>4, <2>2 DEF CallsBecome
    <3>2. calls[e] = 1 /\ calls'[e] <= calls[e] /\ calls'[e] \in Nat \ {0}
      BY <1>4, <2>2, <3>1 DEF CallsBecome, OneUpdate, Counted
    <3> QED
      BY <2>2, <3>1, <3>2, SMT
  <2>3. ASSUME NEW e \in DOMAIN calls', e.via = "update"
        PROVE  calls'[e] = 1
    BY <2>1, <2>2, <2>3
  <2>4. ASSUME NEW e \in DOMAIN calls', NEW f \in DOMAIN calls', e.via = "update",
               f.via = "update", f.at = e.at
        PROVE  f = e
    <3>1. CASE e # d /\ f # d
      BY <2>2, <2>4, <3>1 DEF OneUpdate
    <3>2. CASE e = d \/ f = d
      BY <2>2, <2>4, <3>2
    <3> QED
      BY <3>1, <3>2
  <2> QED
    BY <2>3, <2>4 DEF OneUpdate
<1> QED
  BY <1>4, <1>5

-----------------------------------------------------------------------------
(* What every node and every call has *)

Shapes ==
    /\ DOMAIN router = Nodes
    /\ \A n \in Nodes : DOMAIN router[n] = {"view", "peers", "levels"}
    /\ height \in [Nodes -> Heights] /\ events \in [Nodes -> Seq(Heights)]
    /\ DOMAIN update = Nodes /\ \A n \in Nodes : DOMAIN update[n] = {"add", "remove"}
    /\ Counted(calls)

GoodRouter(n) ==
    /\ InOrder(router[n].view, n) /\ n \in router[n].peers
    /\ router[n].peers \subseteq Range(router[n].view)

\* A node never takes itself for a peer that joined or left.
GoodUpdate(n) ==
    /\ n \notin update[n].add
    /\ n \notin update[n].remove /\ update[n].remove \subseteq router[n].peers

\* It was staked before any height that it has yet to hear of.
StakedBefore(n) ==
    \E g \in Heights : /\ n \in net.staked[g] /\ g <= height[n]
                       /\ \A i \in 1 .. Len(events[n]) : g < events[n][i]

NodeOK(n) ==
    IF router[n] = Nil THEN update[n] = NoUpdate
    ELSE GoodRouter(n) /\ GoodUpdate(n) /\ StakedBefore(n)

NodeInv(n) ==
    /\ \A i \in 1 .. Len(events[n]) : events[n][i] <= height[n]
    /\ n \notin up => events[n] = <<>> /\ update[n] = NoUpdate
    /\ n \in up /\ ~ ComesBack(n) => NodeOK(n)

GoodCall(c) ==
    /\ c.at \in up
    /\ c.pc = "remove" => c.via = "update"
    /\ c.pc \in {"measure", "assign"} => c.via # "background"
    /\ ~ ComesBack(c.at) /\ c.via # "background" =>
         /\ router[c.at] # Nil
         /\ c.pc \in {"add", "remove"} => c.from # c.at
         /\ c.pc = "remove" => c.from \in router[c.at].peers \ update[c.at].remove

GoodCalls == OneUpdate /\ \A c \in DOMAIN calls : GoodCall(c)

ViewsInv == Shapes /\ (\A n \in Nodes : NodeInv(n)) /\ GoodCalls

-----------------------------------------------------------------------------
(* What leaves a node alone *)

LEMMA NodeKept ==
    ASSUME NEW n, NodeInv(n), UNCHANGED net, n \in up' <=> n \in up,
           router'[n] = router[n], update'[n] = update[n], events'[n] = events[n],
           height'[n] = height[n]
    PROVE  NodeInv(n)'
BY DEF NodeInv, NodeOK, GoodRouter, GoodUpdate, StakedBefore, ComesBack

LEMMA CallKept ==
    ASSUME NEW c, GoodCall(c), UNCHANGED net, c.at \in up', router'[c.at] = router[c.at],
           update'[c.at] = update[c.at]
    PROVE  GoodCall(c)'
BY DEF GoodCall, ComesBack

\* The steps that only add calls and end calls
LEMMA CallsOnly ==
    ASSUME ViewsInv, UNCHANGED <<net, up, router, chain>>, NEW new, CallsBecome(new),
           OneUpdate', \A d \in new : GoodCall(d)
    PROVE  ViewsInv'
<1> USE DEF chain
<1>1. Shapes'
  BY DEF Shapes, ViewsInv, CallsBecome
<1>2. \A n \in Nodes : NodeInv(n)'
  BY NodeKept DEF ViewsInv
<1>3. ASSUME NEW c \in DOMAIN calls' PROVE GoodCall(c)'
  <2>1. GoodCall(c)
    BY DEF ViewsInv, GoodCalls, CallsBecome
  <2> QED
    BY <2>1, CallKept DEF GoodCall
<1> QED
  BY <1>1, <1>2, <1>3 DEF ViewsInv, GoodCalls

LEMMA NewCalls ==
    ASSUME ViewsInv, UNCHANGED <<net, up, router, chain>>, NEW new, CallsBecome(new),
           \A d \in new : GoodCall(d) /\ d.via # "update"
    PROVE  ViewsInv'
BY CallsOnly, OneUpdateKept DEF ViewsInv, GoodCalls, Shapes

LEMMA CallStops ==
    ASSUME ViewsInv, UNCHANGED <<net, up, router, chain>>, NEW c \in DOMAIN calls, Return(c)
    PROVE  ViewsInv'
<1>1. CallsBecome({})
  BY ReturnBecomes DEF ViewsInv, Shapes
<1> QED
  BY <1>1, NewCalls

LEMMA GoodFollows ==
    ASSUME NEW c, GoodCall(c), NEW d, NEW p, Follows(d, c, p), p # "remove",
           p \in {"measure", "assign"} => c.via # "background",
           p = "add" /\ ~ ComesBack(c.at) /\ c.via # "background" => c.from # c.at
    PROVE  GoodCall(d)
BY DEF GoodCall, Follows

LEMMA CallMovesOn ==
    ASSUME ViewsInv, UNCHANGED <<net, up, router, chain>>, NEW c \in DOMAIN calls,
           NEW p, MovesTo(c, p), p # "remove",
           p \in {"measure", "assign"} => c.via # "background",
           p = "add" /\ ~ ComesBack(c.at) /\ c.via # "background" => c.from # c.at
    PROVE  ViewsInv'
<1>1. PICK d : Follows(d, c, p) /\ Replace(c, SetToBag({d}))
  BY DEF MovesTo
<1>2. GoodCall(d)
  BY <1>1, GoodFollows DEF ViewsInv, GoodCalls
<1>3. CallsBecome({d})
  BY <1>1, MoveBecomes DEF ViewsInv, Shapes
<1>4. OneUpdate'
  BY <1>1, OneUpdateMoves DEF ViewsInv, GoodCalls, Shapes, Follows
<1> QED
  BY <1>2, <1>3, <1>4, CallsOnly

-----------------------------------------------------------------------------
(* Steps of calls that change no router *)

LEMMA StreamGood ==
    ASSUME NEW via \in {"raintree", "background"}, NEW from, NEW to, NEW nonce, NEW level,
           NEW d \in DOMAIN Libp2pSendToPeer(via, from, to, nonce, level)
    PROVE  GoodCall(d) /\ d.via # "update"
<1>1. CASE HasHandler(via, to)
  <2>1. d = Stream(via, from, to, nonce, level)
    BY <1>1, SetDomain, SMT DEF Libp2pSendToPeer
  <2>2. d.at = to /\ d.via = via /\ d.pc = "stream"
    BY <2>1 DEF Stream
  <2> QED
    BY <1>1, <2>2 DEF GoodCall, HasHandler
<1>2. CASE ~ HasHandler(via, to)
  BY <1>2, EmptyDomain DEF Libp2pSendToPeer
<1> QED
  BY <1>1, <1>2

LEMMA SendCounted ==
    ASSUME NEW via, NEW from, NEW to, NEW nonce, NEW level
    PROVE  Counted(Libp2pSendToPeer(via, from, to, nonce, level))
BY SetCounted, EmptyCounted DEF Libp2pSendToPeer

LEMMA ForwardViews ==
    ASSUME ViewsInv, CallsOK, UNCHANGED net, NEW c \in DOMAIN calls, Forward(c)
    PROVE  ViewsInv'
<1> DEFINE to(k) == getTarget(c.at, k, c.level)
           copy(k) == IF to(k) = 0 THEN EmptyBag
                      ELSE Libp2pSendToPeer("raintree", c.at, to(k), c.nonce, c.level)
           rest == IF c.level > 1 THEN {[c EXCEPT !.level = @ - 1]}
                   ELSE IF c.from = c.at THEN {}
                   ELSE {[c EXCEPT !.level = 0, !.pc = "check"]}
           sends == IF c.level = 0 THEN EmptyBag ELSE copy(1) (+) copy(2)
           new == sends (+) SetToBag(rest)
<1>1. IsCall(c) /\ c.via # "update" /\ c.pc = "forward" /\ GoodCall(c)
  BY DEF CallsOK, IsCall, Forward, UpdatePCs, ViewsInv, GoodCalls
<1>2. Replace(c, new)
  BY DEF Forward
<1>3. /\ \A k : Counted(copy(k))
      /\ \A k : \A d \in DOMAIN copy(k) : GoodCall(d) /\ d.via # "update"
  <2> HIDE DEF to
  <2>1. ASSUME NEW k PROVE Counted(copy(k))
    BY SendCounted, EmptyCounted
  <2>2. ASSUME NEW k, NEW d \in DOMAIN copy(k) PROVE GoodCall(d) /\ d.via # "update"
    BY StreamGood, EmptyDomain
  <2> HIDE DEF copy
  <2> QED
    BY <2>1, <2>2
<1>4. \A d \in rest : GoodCall(d) /\ d.via # "update"
  <2> DEFINE d == [c EXCEPT !.level = c.level - 1]
             e == [c EXCEPT !.level = 0, !.pc = "check"]
  <2>1. Follows(d, c, c.pc) /\ Follows(e, c, "check")
    BY <1>1, CallGoesOn DEF PCs
  <2>2. rest \subseteq {d, e}
    OBVIOUS
  <2> HIDE DEF d, e, rest
  <2>3. GoodCall(d) /\ GoodCall(e)
    BY <1>1, <2>1, GoodFollows
  <2> QED
    BY <1>1, <2>1, <2>2, <2>3 DEF Follows
<1> HIDE DEF copy, rest
<1>5. Counted(sends) /\ \A d \in DOMAIN sends : GoodCall(d) /\ d.via # "update"
  <2>1. DOMAIN (copy(1) (+) copy(2)) = DOMAIN copy(1) \cup DOMAIN copy(2)
    BY PlusDomain
  <2>2. Counted(copy(1) (+) copy(2))
    BY <1>3, PlusCounted
  <2> QED
    BY <1>3, <2>1, <2>2, EmptyDomain, EmptyCounted
<1> HIDE DEF sends
<1>6. Counted(new) /\ \A d \in DOMAIN new : GoodCall(d) /\ d.via # "update"
  <2>1. DOMAIN SetToBag(rest) = rest /\ Counted(SetToBag(rest))
    BY SetDomain, SetCounted
  <2>2. DOMAIN new = DOMAIN sends \cup DOMAIN SetToBag(rest)
    BY PlusDomain
  <2>3. Counted(new)
    BY <1>5, <2>1, PlusCounted
  <2> QED
    BY <1>4, <1>5, <2>1, <2>2, <2>3
<1> HIDE DEF new
<1>7. CallsBecome(DOMAIN new)
  BY <1>2, <1>6, ReplaceBecomes DEF ViewsInv, Shapes
<1>8. UNCHANGED <<up, router, chain>>
  BY DEF Forward, node
<1> QED
  BY <1>6, <1>7, <1>8, NewCalls

LEMMA HandleStreamViews ==
    ASSUME ViewsInv, CallsOK, UNCHANGED net, NEW c \in DOMAIN calls, HandleStream(c)
    PROVE  ViewsInv'
<1>1. UNCHANGED <<up, router, chain>>
  BY DEF HandleStream, node
<1>2. CASE MovesTo(c, "forward")
  BY <1>1, <1>2, CallMovesOn
<1>3. CASE MovesTo(c, "check")
  BY <1>1, <1>3, CallMovesOn
<1>4. CASE MovesTo(c, "add") /\ (c.via = "raintree" => c.from \notin router[c.at].peers)
  <2>1. ASSUME ~ ComesBack(c.at), c.via # "background" PROVE c.from # c.at
    <3>1. GoodCall(c) /\ c.at \in Nodes /\ c.via = "raintree"
      BY <2>1, HandleStreamMoves DEF ViewsInv, GoodCalls, CallsOK, IsCall
    <3>2. c.at \in router[c.at].peers
      BY <2>1, <3>1 DEF ViewsInv, NodeInv, NodeOK, GoodRouter, GoodCall
    <3> QED
      BY <1>4, <3>1, <3>2
  <2> QED
    BY <1>1, <1>4, <2>1, CallMovesOn
<1> QED
  BY <1>2, <1>3, <1>4, HandleStreamMoves

LEMMA QuietStepViews ==
    ASSUME ViewsInv, CallsOK, UNCHANGED net, NEW c \in DOMAIN calls,
           Lose(c) \/ BackgroundAddPeer(c) \/ Measure(c) \/ Check(c) \/ Observe(c)
    PROVE  ViewsInv'
<1>1. UNCHANGED <<up, router, chain>>
  BY DEF Lose, BackgroundAddPeer, Measure, Check, Observe, node
<1>2. IsCall(c) /\ GoodCall(c)
  BY DEF CallsOK, ViewsInv, GoodCalls
<1>3. CASE Return(c)
  BY <1>1, <1>3, CallStops
<1>4. CASE MovesTo(c, "check") \/ MovesTo(c, "observe")
  BY <1>1, <1>4, CallMovesOn
<1>5. CASE Measure(c)
  <2>1. MovesTo(c, "assign") /\ c.via # "background"
    BY <1>2, <1>5, MeasureMoves DEF Measure, GoodCall
  <2> QED
    BY <1>1, <2>1, CallMovesOn
<1> QED
  BY <1>2, <1>3, <1>4, <1>5, BackgroundMoves, CheckMoves DEF Lose, Observe

LEMMA BroadcastViews ==
    ASSUME ViewsInv, NetOK, UNCHANGED net, NEW n \in net.nodes, Broadcast(n)
    PROVE  ViewsInv'
<1>1. UNCHANGED <<up, router, chain>> /\ n \in up
  BY DEF Broadcast, node
<1>2. Counted(calls)
  BY DEF ViewsInv, Shapes
<1>3. CASE IsStakedActor(n)
  <2> DEFINE d == [at |-> n, from |-> n, nonce |-> sent', pc |-> "forward",
                   level |-> router[n].levels, via |-> "raintree"]
             S == SetToBag({d})
  <2>1. calls' = calls (+) S
    BY <1>3 DEF Broadcast
  <2>2. d.at = n /\ d.pc = "forward" /\ d.via = "raintree"
    OBVIOUS
  <2> HIDE DEF d
  <2>3. GoodCall(d)
    BY <1>1, <1>3, <2>2 DEF GoodCall, Broadcast
  <2>4. Counted(S) /\ DOMAIN S = {d}
    BY SetCounted, SetDomain
  <2> HIDE DEF S
  <2>5. CallsBecome({d})
    <3>1. CallsBecome(DOMAIN S)
      BY <1>2, <2>1, <2>4, AddBecomes
    <3> QED
      BY <2>4, <3>1
  <2> QED
    BY <1>1, <2>2, <2>3, <2>5, NewCalls
<1>4. CASE ~ IsStakedActor(n)
  <2>1. calls' = calls
    BY <1>4 DEF Broadcast
  <2>2. CallsBecome({})
    BY <1>2, <2>1, SMT DEF CallsBecome, Counted
  <2> QED
    BY <1>1, <2>2, NewCalls
<1> QED
  BY <1>3, <1>4

LEMMA ReadViews ==
    ASSUME ViewsInv, UNCHANGED net, NEW n, NEW k, ReadSubscription(n, k)
    PROVE  ViewsInv'
<1> DEFINE d == [at |-> n, from |-> n, nonce |-> k, level |-> 0,
                 via |-> "background", pc |-> "check"]
           S == SetToBag({d})
<1>1. UNCHANGED <<up, router, chain>> /\ n \in up
  BY DEF ReadSubscription, node
<1>2. calls' = calls (+) S
  BY DEF ReadSubscription
<1>3. d.at = n /\ d.pc = "check" /\ d.via = "background"
  OBVIOUS
<1> HIDE DEF d
<1>4. GoodCall(d)
  BY <1>1, <1>3 DEF GoodCall
<1>5. Counted(S) /\ DOMAIN S = {d}
  BY SetCounted, SetDomain
<1> HIDE DEF S
<1>6. CallsBecome({d})
  <2>1. CallsBecome(DOMAIN S)
    BY <1>2, <1>5, AddBecomes DEF ViewsInv, Shapes
  <2> QED
    BY <1>5, <2>1
<1> QED
  BY <1>1, <1>3, <1>4, <1>6, NewCalls

-----------------------------------------------------------------------------
(* Steps of calls that change a router *)

\* One router changes, and one call goes on or ends.
LEMMA RouterStep ==
    ASSUME ViewsInv, NetOK, UNCHANGED <<net, up, chain>>, NEW n \in Nodes, NEW r,
           DOMAIN r = {"view", "peers", "levels"},
           router' = [router EXCEPT ![n] = r],
           NodeInv(n)', NEW new, CallsBecome(new), OneUpdate',
           \A d \in new : GoodCall(d),
           \A d \in DOMAIN calls' : GoodCall(d) /\ d.at = n => GoodCall(d)'
    PROVE  ViewsInv'
<1> USE DEF chain
<1>1. /\ \A m \in Nodes \ {n} : router'[m] = router[m]
      /\ router'[n] = r /\ DOMAIN router' = Nodes
  BY DEF ViewsInv, Shapes
<1>2. Shapes'
  <2>1. \A m \in Nodes : DOMAIN router'[m] = {"view", "peers", "levels"}
    BY <1>1 DEF ViewsInv, Shapes
  <2>2. Counted(calls)'
    BY DEF CallsBecome, Counted
  <2> QED
    BY <1>1, <2>1, <2>2 DEF ViewsInv, Shapes
<1>3. ASSUME NEW m \in Nodes PROVE NodeInv(m)'
  <2>1. CASE m = n
    BY <2>1
  <2>2. CASE m # n
    BY <1>1, <2>2, NodeKept DEF ViewsInv
  <2> QED
    BY <2>1, <2>2
<1>4. ASSUME NEW c \in DOMAIN calls' PROVE GoodCall(c)'
  <2>1. GoodCall(c)
    BY DEF ViewsInv, GoodCalls, CallsBecome
  <2>2. CASE c.at = n
    BY <2>1, <2>2
  <2>3. CASE c.at # n
    <3>1. c.at \in Nodes
      BY <2>1 DEF GoodCall, NetOK
    <3>2. router'[c.at] = router[c.at]
      BY <1>1, <2>3, <3>1
    <3> QED
      BY <2>1, <3>2, CallKept DEF GoodCall, chain
  <2> QED
    BY <2>2, <2>3
<1> QED
  BY <1>2, <1>3, <1>4 DEF ViewsInv, GoodCalls

LEMMA NotNil ==
    ASSUME NEW r, r.view # <<>>
    PROVE  r # Nil
<1>1. Nil.view = <<>>
  BY DEF Nil
<1> QED
  BY <1>1

LEMMA AddPeerViews ==
    ASSUME ViewsInv, NetOK, CallsOK, UNCHANGED net, NEW c \in DOMAIN calls, AddPeer(c)
    PROVE  ViewsInv'
<1> DEFINE n == c.at
           view == ViewAdd(router[n].view, c.from)
           peers == router[n].peers \cup {c.from}
           r == [[router[n] EXCEPT !.peers = peers] EXCEPT !.view = view]
<1>0. /\ IsCall(c) /\ GoodCall(c) /\ n \in Nodes /\ c.from \in Nodes /\ n \in up
      /\ c.via # "background" /\ c.pc = "add"
  BY DEF CallsOK, IsCall, ViewsInv, GoodCalls, GoodCall, AddPeer
<1>1. UNCHANGED <<up, chain>>
  BY DEF AddPeer
<1>2. router' = [router EXCEPT ![n] = r]
  BY DEF AddPeer
<1>3. /\ r.view = view /\ r.peers = peers /\ DOMAIN r = {"view", "peers", "levels"}
      /\ DOMAIN router = Nodes
  BY <1>0 DEF ViewsInv, Shapes
<1> HIDE DEF r
<1>4. router'[n].view = view /\ router'[n].peers = peers
  BY <1>0, <1>2, <1>3
<1>5. PICK d : Follows(d, c, "measure") /\ Replace(c, SetToBag({d}))
  BY <1>0, PeerMoves DEF MovesTo
<1>6. GoodCall(d) /\ CallsBecome({d}) /\ OneUpdate'
  BY <1>0, <1>5, GoodFollows, MoveBecomes, OneUpdateMoves
     DEF ViewsInv, GoodCalls, Shapes, Follows
<1>7. ASSUME ~ ComesBack(n)
      PROVE  GoodRouter(n)' /\ router'[n] # Nil /\ NodeOK(n)'
  <2>1. c.from # n /\ GoodRouter(n) /\ GoodUpdate(n) /\ StakedBefore(n)
    BY <1>0, <1>7 DEF GoodCall, ViewsInv, NodeInv, NodeOK
  <2>2. /\ InOrder(view, n)
        /\ Range(router[n].view) \cup {c.from} \subseteq Range(view)
    BY <1>0, <2>1, AddInOrder DEF GoodRouter
  <2> HIDE DEF view
  <2>3. GoodRouter(n)'
    BY <1>4, <2>1, <2>2 DEF GoodRouter
  <2>4. (router[n] # Nil)'
    <3>1. router'[n].view # <<>>
      BY <1>4, <2>2, SMT DEF InOrder
    <3> QED
      BY <3>1, NotNil
  <2>5. GoodUpdate(n)' /\ StakedBefore(n)'
    BY <1>1, <1>4, <2>1 DEF GoodUpdate, StakedBefore, chain
  <2> QED
    BY <2>3, <2>4, <2>5 DEF NodeOK
<1>8. NodeInv(n)'
  <2>1. NodeInv(n) /\ (ComesBack(n)' <=> ComesBack(n))
    BY <1>0 DEF ViewsInv, ComesBack
  <2> QED
    BY <1>0, <1>1, <1>7, <2>1 DEF NodeInv, chain
<1>9. ASSUME NEW e \in DOMAIN calls', GoodCall(e), e.at = n PROVE GoodCall(e)'
  BY <1>1, <1>4, <1>7, <1>9 DEF GoodCall, ComesBack, chain
<1> QED
  BY <1>0, <1>1, <1>2, <1>3, <1>6, <1>8, <1>9, RouterStep

LEMMA RemovePeerViews ==
    ASSUME ViewsInv, NetOK, CallsOK, UNCHANGED net, NEW c \in DOMAIN calls, RemovePeer(c)
    PROVE  ViewsInv'
<1> DEFINE n == c.at
           view == ViewRemove(router[n].view, c.from)
           peers == router[n].peers \ {c.from}
           r == [[router[n] EXCEPT !.peers = peers] EXCEPT !.view = view]
<1>0. /\ IsCall(c) /\ GoodCall(c) /\ n \in Nodes /\ c.from \in Nodes /\ n \in up
      /\ c.via = "update" /\ c.pc = "remove"
  BY DEF CallsOK, IsCall, ViewsInv, GoodCalls, GoodCall, RemovePeer
<1>1. UNCHANGED <<up, chain>>
  BY DEF RemovePeer
<1>2. router' = [router EXCEPT ![n] = r]
  BY DEF RemovePeer
<1>3. /\ r.view = view /\ r.peers = peers /\ DOMAIN r = {"view", "peers", "levels"}
      /\ DOMAIN router = Nodes
  BY <1>0 DEF ViewsInv, Shapes
<1> HIDE DEF r
<1>4. router'[n].view = view /\ router'[n].peers = peers
  BY <1>0, <1>2, <1>3
<1>5. PICK d : Follows(d, c, "measure") /\ Replace(c, SetToBag({d}))
  BY <1>0, PeerMoves DEF MovesTo
<1>6. GoodCall(d) /\ CallsBecome({d}) /\ OneUpdate'
  BY <1>0, <1>5, GoodFollows, MoveBecomes, OneUpdateMoves
     DEF ViewsInv, GoodCalls, Shapes, Follows
<1>7. ASSUME ~ ComesBack(n)
      PROVE  GoodRouter(n)' /\ router'[n] # Nil /\ NodeOK(n)'
  <2>1. /\ c.from # n /\ GoodRouter(n) /\ GoodUpdate(n) /\ StakedBefore(n)
        /\ c.from \in router[n].peers /\ c.from \notin update[n].remove
    BY <1>0, <1>7 DEF GoodCall, ViewsInv, NodeInv, NodeOK
  <2>2. /\ InOrder(view, n)
        /\ Range(router[n].view) \ {c.from} \subseteq Range(view)
    BY <1>0, <2>1, RemoveInOrder DEF GoodRouter
  <2> HIDE DEF view
  <2>3. GoodRouter(n)'
    BY <1>4, <2>1, <2>2 DEF GoodRouter
  <2>4. (router[n] # Nil)'
    <3>1. router'[n].view # <<>>
      BY <1>4, <2>2, SMT DEF InOrder
    <3> QED
      BY <3>1, NotNil
  <2>5. GoodUpdate(n)' /\ StakedBefore(n)'
    BY <1>1, <1>4, <2>1 DEF GoodUpdate, StakedBefore, chain
  <2> QED
    BY <2>3, <2>4, <2>5 DEF NodeOK
<1>8. NodeInv(n)'
  <2>1. NodeInv(n) /\ (ComesBack(n)' <=> ComesBack(n))
    BY <1>0 DEF ViewsInv, ComesBack
  <2> QED
    BY <1>0, <1>1, <1>7, <2>1 DEF NodeInv, chain
\* This was the one call that removes a peer here, and it goes on.
<1>9. ASSUME NEW e \in DOMAIN calls', GoodCall(e), e.at = n PROVE GoodCall(e)'
  <2>1. c # d /\ d.pc = "measure"
    BY <1>0, <1>5 DEF Follows
  <2>2. c \notin DOMAIN calls'
    BY <1>0, <1>5, <2>1, OneUpdateMoves DEF ViewsInv, GoodCalls, Shapes, Follows
  <2>3. e.pc # "remove"
    <3> SUFFICES ASSUME e.pc = "remove" PROVE FALSE
      OBVIOUS
    <3>1. e \in DOMAIN calls /\ e.via = "update"
      BY <1>6, <1>9, <2>1 DEF CallsBecome, GoodCall
    <3>2. e = c
      BY <1>0, <1>9, <3>1 DEF ViewsInv, GoodCalls, OneUpdate
    <3> QED
      BY <2>2, <3>2
  <2> QED
    BY <1>1, <1>7, <1>9, <2>3 DEF GoodCall, ComesBack, chain
<1> QED
  BY <1>0, <1>1, <1>2, <1>3, <1>6, <1>8, <1>9, RouterStep

LEMMA AssignViews ==
    ASSUME ViewsInv, NetOK, CallsOK, UNCHANGED net, NEW c \in DOMAIN calls, Assign(c)
    PROVE  ViewsInv'
<1> DEFINE n == c.at
           r == [router[n] EXCEPT !.levels = c.level \div Base]
<1>0. /\ IsCall(c) /\ GoodCall(c) /\ n \in Nodes /\ n \in up
      /\ c.via # "background" /\ c.pc = "assign"
  BY DEF CallsOK, IsCall, ViewsInv, GoodCalls, GoodCall, Assign
<1>1. UNCHANGED <<up, chain>>
  BY DEF Assign
<1>2. router' = [router EXCEPT ![n] = r]
  BY DEF Assign
<1>3. /\ r.view = router[n].view /\ r.peers = router[n].peers
      /\ DOMAIN r = {"view", "peers", "levels"} /\ DOMAIN router = Nodes
  BY <1>0 DEF ViewsInv, Shapes
<1> HIDE DEF r
<1>4. router'[n].view = router[n].view /\ router'[n].peers = router[n].peers
  BY <1>0, <1>2, <1>3
<1>5. ASSUME ~ ComesBack(n)
      PROVE  router'[n] # Nil /\ NodeOK(n)'
  <2>1. GoodRouter(n) /\ GoodUpdate(n) /\ StakedBefore(n)
    BY <1>0, <1>5 DEF GoodCall, ViewsInv, NodeInv, NodeOK
  <2>2. GoodRouter(n)' /\ GoodUpdate(n)' /\ StakedBefore(n)'
    BY <1>1, <1>4, <2>1 DEF GoodRouter, GoodUpdate, StakedBefore, chain
  <2>3. (router[n] # Nil)'
    <3>1. router'[n].view # <<>>
      BY <1>4, <2>1, SMT DEF GoodRouter, InOrder
    <3> QED
      BY <3>1, NotNil
  <2> QED
    BY <2>2, <2>3 DEF NodeOK
<1>6. NodeInv(n)'
  <2>1. NodeInv(n) /\ (ComesBack(n)' <=> ComesBack(n))
    BY <1>0 DEF ViewsInv, ComesBack
  <2> QED
    BY <1>0, <1>1, <1>5, <2>1 DEF NodeInv, chain
<1>7. ASSUME NEW e \in DOMAIN calls', GoodCall(e), e.at = n PROVE GoodCall(e)'
  BY <1>1, <1>4, <1>5, <1>7 DEF GoodCall, ComesBack, chain
<1>8. CASE Return(c)
  <2>1. CallsBecome({})
    BY <1>8, ReturnBecomes DEF ViewsInv, Shapes
  <2>2. OneUpdate'
    BY <2>1, OneUpdateKept DEF ViewsInv, Shapes, GoodCalls
  <2> QED
    BY <1>0, <1>1, <1>2, <1>3, <1>6, <1>7, <2>1, <2>2, RouterStep
<1>9. CASE MovesTo(c, "forward")
  <2>1. PICK d : Follows(d, c, "forward") /\ Replace(c, SetToBag({d}))
    BY <1>9 DEF MovesTo
  <2>2. GoodCall(d) /\ CallsBecome({d}) /\ OneUpdate'
    BY <1>0, <2>1, GoodFollows, MoveBecomes, OneUpdateMoves
       DEF ViewsInv, GoodCalls, Shapes, Follows
  <2> QED
    BY <1>0, <1>1, <1>2, <1>3, <1>6, <1>7, <2>2, RouterStep
<1> QED
  BY <1>0, <1>8, <1>9, AssignMoves

-----------------------------------------------------------------------------
(* Starting and ending *)

LEMMA NilShape == DOMAIN Nil = {"view", "peers", "levels"} /\ DOMAIN NoUpdate = {"add", "remove"}
BY SMT DEF Nil, NoUpdate

LEMMA EmptyEvents == <<>> \in Seq(Heights) /\ 1 .. Len(<<>>) = {}
BY SMT

LEMMA EndsViews ==
    ASSUME ViewsInv, NetOK, UNCHANGED <<net, height>>, NEW n \in Nodes, ProcessEnds(n)
    PROVE  ViewsInv'
<1>1. /\ router'[n] = Nil /\ events'[n] = <<>> /\ update'[n] = NoUpdate
      /\ n \notin up' /\ up' \subseteq up
      /\ DOMAIN router' = Nodes /\ DOMAIN update' = Nodes
      /\ events' = [events EXCEPT ![n] = <<>>]
  BY DEF ProcessEnds, ViewsInv, Shapes
<1>2. ASSUME NEW m \in Nodes, m # n
      PROVE  /\ router'[m] = router[m] /\ events'[m] = events[m] /\ update'[m] = update[m]
             /\ m \in up' <=> m \in up
  BY <1>2 DEF ProcessEnds, ViewsInv, Shapes
<1>3. /\ DOMAIN calls' = {d \in DOMAIN calls : d.at # n}
      /\ \A c \in DOMAIN calls' : calls'[c] = calls[c]
  BY DEF ProcessEnds
<1>4. Shapes'
  <2>1. /\ \A m \in Nodes : DOMAIN router'[m] = {"view", "peers", "levels"}
        /\ \A m \in Nodes : DOMAIN update'[m] = {"add", "remove"}
    BY <1>1, <1>2, NilShape DEF ViewsInv, Shapes
  <2>2. events' \in [Nodes -> Seq(Heights)]
    BY <1>1, EmptyEvents DEF ViewsInv, Shapes
  <2>3. Counted(calls)'
    BY <1>3 DEF ViewsInv, Shapes, Counted
  <2> QED
    BY <1>1, <2>1, <2>2, <2>3 DEF ViewsInv, Shapes
<1>5. ASSUME NEW m \in Nodes PROVE NodeInv(m)'
  <2>1. CASE m = n
    BY <1>1, <2>1, EmptyEvents DEF NodeInv
  <2>2. CASE m # n
    BY <1>2, <2>2, NodeKept DEF ViewsInv
  <2> QED
    BY <2>1, <2>2
<1>6. ASSUME NEW c \in DOMAIN calls' PROVE GoodCall(c)'
  <2>1. GoodCall(c) /\ c.at # n
    BY <1>3 DEF ViewsInv, GoodCalls
  <2>2. c.at \in Nodes /\ c.at \in up
    BY <2>1 DEF GoodCall, NetOK
  <2> QED
    BY <1>2, <2>1, <2>2, CallKept
<1>7. OneUpdate'
  BY <1>3 DEF OneUpdate, ViewsInv, GoodCalls
<1> QED
  BY <1>4, <1>5, <1>6, <1>7 DEF ViewsInv, GoodCalls

\* The router that a node starts with
LEMMA NewRouterGood ==
    ASSUME NEW n \in Nodes, NEW S, S \subseteq Nodes
    PROVE  LET r == NewRouter(n, S)
           IN  /\ DOMAIN r = {"view", "peers", "levels"}
               /\ n \notin S => r = Nil
               /\ n \in S => /\ InOrder(r.view, n) /\ n \in r.peers
                             /\ r.peers \subseteq Range(r.view)
<1>1. CASE n \notin S
  BY <1>1, NilShape DEF NewRouter
<1>2. CASE n \in S
  <2> DEFINE r == NewPeerManager(n, S)
  <2>1. NewRouter(n, S) = r
    BY <1>2 DEF NewRouter
  <2>2. /\ DOMAIN r = {"view", "peers", "levels"}
        /\ r.view = sortAddrs(n, S) /\ r.peers = S
    BY DEF NewPeerManager
  <2>3. InOrder(sortAddrs(n, S), n) /\ S \subseteq Range(sortAddrs(n, S))
    BY <1>2, SortAddrsInOrder
  <2> HIDE DEF r
  <2> QED
    BY <1>2, <2>1, <2>2, <2>3
<1> QED
  BY <1>1, <1>2

LEMMA StartViews ==
    ASSUME ViewsInv, NetOK, UNCHANGED net, NEW n \in net.nodes, Start(n)
    PROVE  ViewsInv'
<1> DEFINE S == StakedPeerstore(n)
           r == NewRouter(n, S)
<1>0. n \in Nodes /\ n \notin up /\ up' = up \cup {n} /\ UNCHANGED <<chain, calls>>
  BY NetFacts DEF Start
<1>1. S \subseteq Nodes /\ S = net.staked[height[n]] /\ height[n] \in Heights
  BY <1>0, NetFacts DEF StakedPeerstore, ViewsInv, Shapes
<1>2. router' = [router EXCEPT ![n] = r]
  BY DEF Start
<1>3. /\ DOMAIN r = {"view", "peers", "levels"}
      /\ n \notin S => r = Nil
      /\ n \in S => /\ InOrder(r.view, n) /\ n \in r.peers
                    /\ r.peers \subseteq Range(r.view)
  BY <1>0, <1>1, NewRouterGood
<1> HIDE DEF r, S
<1>4. /\ router'[n] = r /\ DOMAIN router' = Nodes
      /\ \A m \in Nodes \ {n} : router'[m] = router[m]
  BY <1>0, <1>2 DEF ViewsInv, Shapes
<1>5. Shapes'
  <2>1. \A m \in Nodes : DOMAIN router'[m] = {"view", "peers", "levels"}
    BY <1>3, <1>4 DEF ViewsInv, Shapes
  <2> QED
    BY <1>0, <1>4, <2>1 DEF ViewsInv, Shapes, Counted, chain
<1>6. NodeInv(n)'
  <2>1. events[n] = <<>> /\ update[n] = NoUpdate
    BY <1>0 DEF ViewsInv, NodeInv
  <2>2. events'[n] = <<>> /\ update'[n] = NoUpdate /\ height'[n] = height[n]
    BY <1>0, <2>1 DEF chain
  <2>3. CASE n \notin S
    <3>1. router'[n] = Nil
      BY <1>3, <1>4, <2>3
    <3> QED
      BY <1>0, <2>2, <3>1, EmptyEvents DEF NodeInv, NodeOK
  <2>4. CASE n \in S
    <3>1. GoodRouter(n)'
      BY <1>3, <1>4, <2>4 DEF GoodRouter
    <3>2. GoodUpdate(n)'
      <4>1. NoUpdate.add = {} /\ NoUpdate.remove = {}
        BY DEF NoUpdate
      <4> QED
        BY <2>2, <4>1 DEF GoodUpdate
    <3>3. StakedBefore(n)'
      <4>1. height[n] <= height[n]
        BY <1>1, SMT DEF Heights
      <4> QED
        BY <1>1, <2>2, <2>4, <4>1, EmptyEvents DEF StakedBefore
    <3>4. router'[n] # Nil
      <4>1. r.view # <<>>
        BY <1>3, <2>4, SMT DEF InOrder
      <4> QED
        BY <1>4, <4>1, NotNil
    <3> QED
      BY <1>0, <2>2, <3>1, <3>2, <3>3, <3>4, EmptyEvents DEF NodeInv, NodeOK
  <2> QED
    BY <2>3, <2>4
<1>7. ASSUME NEW m \in Nodes PROVE NodeInv(m)'
  <2>1. CASE m = n
    BY <1>6, <2>1
  <2>2. CASE m # n
    <3>1. m \in up' <=> m \in up
      BY <1>0, <2>2
    <3> QED
      BY <1>0, <1>4, <2>2, <3>1, NodeKept DEF ViewsInv, chain
  <2> QED
    BY <2>1, <2>2
<1>8. GoodCalls'
  <2>1. ASSUME NEW c \in DOMAIN calls PROVE GoodCall(c)'
    <3>1. GoodCall(c)
      BY DEF ViewsInv, GoodCalls
    <3>2. c.at \in Nodes /\ c.at \in up /\ c.at # n
      BY <1>0, <3>1 DEF GoodCall, NetOK
    <3> QED
      BY <1>0, <1>4, <3>1, <3>2, CallKept DEF chain
  <2> QED
    BY <1>0, <2>1 DEF ViewsInv, GoodCalls, OneUpdate
<1> QED
  BY <1>5, <1>7, <1>8 DEF ViewsInv

LEMMA SendViews ==
    ASSUME ViewsInv, NetOK, UNCHANGED net, NEW n \in net.nodes, NEW m, Send(n, m)
    PROVE  ViewsInv'
<1>0. n \in Nodes /\ Counted(calls)
  BY NetFacts DEF ViewsInv, Shapes
<1>1. CASE ProcessEnds(n) /\ UNCHANGED height
  BY <1>0, <1>1, EndsViews
<1>2. ASSUME NEW via \in {"raintree", "background"}, UNCHANGED <<node, chain>>,
             calls' = calls (+) Libp2pSendToPeer(via, n, m, sent', 0)
      PROVE  ViewsInv'
  <2> DEFINE new == Libp2pSendToPeer(via, n, m, sent', 0)
  <2>1. calls' = calls (+) new
    BY <1>2
  <2>2. Counted(new) /\ \A d \in DOMAIN new : GoodCall(d) /\ d.via # "update"
    BY StreamGood, SendCounted
  <2> HIDE DEF new
  <2>3. CallsBecome(DOMAIN new)
    BY <1>0, <2>1, <2>2, AddBecomes
  <2> QED
    BY <1>2, <2>2, <2>3, NewCalls DEF node
<1>3. CASE calls' = calls /\ UNCHANGED <<node, chain>>
  <2>1. CallsBecome({})
    BY <1>0, <1>3, SMT DEF CallsBecome, Counted
  <2> QED
    BY <1>3, <2>1, NewCalls DEF node
<1> QED
  BY <1>1, <1>2, <1>3 DEF Send, BackgroundSend

-----------------------------------------------------------------------------
(* New heights *)

\* The height, the events and the update of one node change, and calls start.
LEMMA ChainStep ==
    ASSUME ViewsInv, NetOK, UNCHANGED <<net, up, router>>, Shapes', NEW n \in Nodes,
           \A m \in Nodes \ {n} :
             height'[m] = height[m] /\ events'[m] = events[m] /\ update'[m] = update[m],
           NodeInv(n)', NEW new, CallsBecome(new), OneUpdate', \A d \in new : d.at = n,
           \A d \in DOMAIN calls' : (GoodCall(d) \/ d \in new) /\ d.at = n => GoodCall(d)'
    PROVE  ViewsInv'
<1>1. ASSUME NEW m \in Nodes PROVE NodeInv(m)'
  <2>1. CASE m = n
    BY <2>1
  <2>2. CASE m # n
    BY <2>2, NodeKept DEF ViewsInv
  <2> QED
    BY <2>1, <2>2
<1>2. ASSUME NEW c \in DOMAIN calls' PROVE GoodCall(c)'
  <2>1. GoodCall(c) \/ c \in new
    BY DEF CallsBecome, ViewsInv, GoodCalls
  <2>2. CASE c.at = n
    BY <2>1, <2>2
  <2>3. CASE c.at # n
    <3>1. GoodCall(c) /\ c.at \in Nodes /\ c.at \in up
      BY <2>1, <2>3 DEF GoodCall, NetOK
    <3> QED
      BY <2>3, <3>1, CallKept
  <2> QED
    BY <2>2, <2>3
<1> QED
  BY <1>1, <1>2 DEF ViewsInv, GoodCalls

LEMMA CallsStay ==
    ASSUME ViewsInv, calls' = calls
    PROVE  CallsBecome({}) /\ OneUpdate'
<1>1. CallsBecome({})
  BY SMT DEF CallsBecome, Counted, ViewsInv, Shapes
<1> QED
  BY <1>1, OneUpdateKept DEF ViewsInv, Shapes, GoodCalls

LEMMA TopIsHeight ==
    ASSUME NetOK, NEW n \in Nodes
    PROVE  net.top[n] \in Heights
<1>1. net \in [nodes : SUBSET Nodes, staked : [Heights -> SUBSET Nodes],
               top : [Nodes -> Heights], readers : SUBSET Nodes,
               msgs : 0 .. MaxMsgs, faults : Nat]
  BY GossipAssumption DEF NetOK
<1>2. net.top \in [Nodes -> Heights]
  BY <1>1
<1> QED
  BY <1>2

LEMMA NewHeightViews ==
    ASSUME ViewsInv, NetOK, UNCHANGED net, NEW n \in net.nodes, NewHeight(n)
    PROVE  ViewsInv'
<1> DEFINE h == height[n] + 1
           e == Append(events[n], h)
<1>0. /\ n \in Nodes /\ n \in up /\ UNCHANGED <<up, router, update, calls>>
      /\ height[n] \in Heights /\ events[n] \in Seq(Heights)
  BY NetFacts DEF NewHeight, node, ViewsInv, Shapes
<1>1. h \in Heights /\ height[n] < h
  <2>1. net.top[n] \in Heights /\ height[n] < net.top[n] /\ MaxHeight \in Nat
    BY <1>0, TopIsHeight, GossipAssumption DEF NewHeight
  <2> QED
    BY <1>0, <2>1, SMT DEF Heights
<1>2. /\ height' = [height EXCEPT ![n] = h] /\ height'[n] = h
      /\ events' = [events EXCEPT ![n] = e] /\ events'[n] = e
  BY <1>0 DEF NewHeight, ViewsInv, Shapes
<1>3. /\ e \in Seq(Heights) /\ Len(e) = Len(events[n]) + 1 /\ Len(events[n]) \in Nat
      /\ e[Len(events[n]) + 1] = h
      /\ \A i \in 1 .. Len(events[n]) : e[i] = events[n][i] /\ e[i] \in Heights
  BY <1>0, <1>1, SMT
<1> HIDE DEF e
<1>4. \A i \in 1 .. Len(e) : i = Len(events[n]) + 1 \/ i \in 1 .. Len(events[n])
  BY <1>3, SMT
<1> HIDE DEF h
<1>5. Shapes'
  <2>1. height' \in [Nodes -> Heights] /\ events' \in [Nodes -> Seq(Heights)]
    BY <1>1, <1>2, <1>3 DEF ViewsInv, Shapes
  <2> QED
    BY <1>0, <2>1 DEF ViewsInv, Shapes, Counted
<1>6. ASSUME NEW i \in 1 .. Len(e) PROVE e[i] <= h
  <2>1. CASE i = Len(events[n]) + 1
    BY <1>1, <1>3, <2>1, SMT DEF Heights
  <2>2. CASE i \in 1 .. Len(events[n])
    <3>1. e[i] = events[n][i] /\ events[n][i] <= height[n] /\ e[i] \in Heights
      BY <1>0, <1>3, <2>2 DEF ViewsInv, NodeInv
    <3> QED
      BY <1>0, <1>1, <3>1, SMT DEF Heights
  <2> QED
    BY <1>4, <2>1, <2>2
<1>7. ASSUME StakedBefore(n) PROVE StakedBefore(n)'
  <2>1. PICK g \in Heights : /\ n \in net.staked[g] /\ g <= height[n]
                             /\ \A i \in 1 .. Len(events[n]) : g < events[n][i]
    BY <1>7 DEF StakedBefore
  <2>2. g < h /\ g <= h
    BY <1>0, <1>1, <2>1, SMT DEF Heights
  <2>3. \A i \in 1 .. Len(e) : g < e[i]
    BY <1>3, <1>4, <2>1, <2>2
  <2> QED
    BY <1>2, <2>1, <2>2, <2>3 DEF StakedBefore
<1>8. NodeInv(n)'
  <2>1. n \in up' /\ (ComesBack(n)' <=> ComesBack(n))
    BY <1>0 DEF ComesBack
  <2>2. ASSUME ~ ComesBack(n) PROVE NodeOK(n)'
    <3>1. NodeOK(n)
      BY <1>0, <2>2 DEF ViewsInv, NodeInv
    <3> QED
      BY <1>0, <1>7, <3>1 DEF NodeOK, GoodRouter, GoodUpdate
  <2> QED
    BY <1>2, <1>6, <2>1, <2>2 DEF NodeInv
<1>9. CallsBecome({}) /\ OneUpdate'
  BY <1>0, CallsStay
<1>10. \A m \in Nodes \ {n} :
         height'[m] = height[m] /\ events'[m] = events[m] /\ update'[m] = update[m]
  BY <1>0, <1>2 DEF ViewsInv, Shapes
<1>11. \A d \in DOMAIN calls' : GoodCall(d) => GoodCall(d)'
  BY <1>0, CallKept DEF GoodCall
<1> QED
  BY <1>0, <1>5, <1>8, <1>9, <1>10, <1>11, ChainStep

\* The event of a height at which the node is not staked comes either after
\* the last height at which it was, or between two at which it was.
LEMMA StillStaked ==
    ASSUME ViewsInv, NEW n \in Nodes, n \in up, ~ ComesBack(n), router[n] # Nil,
           events[n] # <<>>, IsStakedActor(n)
    PROVE  n \in net.staked[Head(events[n])]
<1> DEFINE h == Head(events[n])
           k == height[n]
<1>1. /\ events[n] \in Seq(Heights) /\ k \in Heights /\ n \in net.staked[k]
      /\ NodeInv(n) /\ StakedBefore(n)
  BY DEF ViewsInv, Shapes, IsStakedActor, StakedPeerstore, NodeInv, NodeOK
<1>2. h = events[n][1] /\ 1 \in 1 .. Len(events[n]) /\ h \in Heights
  BY <1>1, SMT
<1>3. PICK g \in Heights : n \in net.staked[g] /\ g < h
  BY <1>1, <1>2 DEF StakedBefore
<1>4. h <= k
  BY <1>1, <1>2 DEF NodeInv
<1> HIDE DEF h, k
<1>5. CASE h = k
  BY <1>1, <1>5 DEF h
<1>6. CASE h # k
  <2>1. h < k
    BY <1>1, <1>2, <1>4, <1>6, SMT DEF Heights
  <2>2. n \in net.staked[h]
    BY <1>1, <1>2, <1>3, <2>1 DEF ComesBack
  <2> QED
    BY <2>2 DEF h
<1> QED
  BY <1>5, <1>6

LEMMA HandleNewHeightViews ==
    ASSUME ViewsInv, NetOK, UNCHANGED net, NEW n \in net.nodes, HandleNewHeight(n)
    PROVE  ViewsInv'
<1> DEFINE old == router[n].peers
           new == net.staked[Head(events[n])]
           u == IF IsStakedActor(n) THEN [add |-> new \ old, remove |-> old \ new]
                ELSE NoUpdate
           t == Tail(events[n])
<1>0. /\ n \in Nodes /\ n \in up /\ events[n] # <<>> /\ update[n] = NoUpdate
      /\ events[n] \in Seq(Heights)
      /\ \A c \in DOMAIN calls : c.at = n => c.via # "update"
  BY NetFacts DEF HandleNewHeight, Updating, ViewsInv, Shapes
<1>1. CASE IsStakedActor(n) /\ router[n] = Nil
  BY <1>0, <1>1, EndsViews DEF HandleNewHeight
<1>2. CASE ~ (IsStakedActor(n) /\ router[n] = Nil)
  <2>1. /\ events' = [events EXCEPT ![n] = t] /\ update' = [update EXCEPT ![n] = u]
        /\ UNCHANGED <<up, router, calls, height>>
    BY <1>2 DEF HandleNewHeight, node
  <2>2. /\ DOMAIN u = {"add", "remove"}
        /\ IsStakedActor(n) => u.add = new \ old /\ u.remove = old \ new
        /\ ~ IsStakedActor(n) => u = NoUpdate
    BY NilShape
  <2>3. /\ t \in Seq(Heights) /\ Len(events[n]) \in Nat
        /\ \A i \in 1 .. Len(t) : i + 1 \in 1 .. Len(events[n]) /\ t[i] = events[n][i + 1]
    BY <1>0, SMT
  <2> HIDE DEF u, t
  <2>4. events'[n] = t /\ update'[n] = u /\ height'[n] = height[n] /\ router'[n] = router[n]
    BY <1>0, <2>1 DEF ViewsInv, Shapes
  <2>5. \A m \in Nodes \ {n} :
          height'[m] = height[m] /\ events'[m] = events[m] /\ update'[m] = update[m]
    BY <2>1 DEF ViewsInv, Shapes
  <2>6. Shapes'
    <3>1. \A m \in Nodes : DOMAIN update'[m] = {"add", "remove"}
      BY <2>2, <2>4, <2>5 DEF ViewsInv, Shapes
    <3>2. events' \in [Nodes -> Seq(Heights)] /\ DOMAIN update' = Nodes
      BY <2>1, <2>3 DEF ViewsInv, Shapes
    <3> QED
      BY <2>1, <3>1, <3>2 DEF ViewsInv, Shapes, Counted
  <2>7. ASSUME ~ ComesBack(n) PROVE NodeOK(n)'
    <3>1. NodeOK(n)
      BY <1>0, <2>7 DEF ViewsInv, NodeInv
    <3>2. CASE router[n] = Nil
      BY <1>2, <2>2, <2>4, <3>2 DEF NodeOK
    <3>3. CASE router[n] # Nil
      <4>1. GoodRouter(n)'
        BY <2>1, <3>1, <3>3 DEF NodeOK, GoodRouter
      <4>2. GoodUpdate(n)'
        <5>1. CASE IsStakedActor(n)
          <6>1. n \in new /\ n \in old
            BY <1>0, <2>7, <3>1, <3>3, <5>1, StillStaked DEF NodeOK, GoodRouter
          <6> QED
            BY <2>2, <2>4, <5>1, <6>1 DEF GoodUpdate
        <5>2. CASE ~ IsStakedActor(n)
          <6>1. NoUpdate.add = {} /\ NoUpdate.remove = {}
            BY DEF NoUpdate
          <6> QED
            BY <2>2, <2>4, <5>2, <6>1 DEF GoodUpdate
        <5> QED
          BY <5>1, <5>2
      <4>3. StakedBefore(n)'
        BY <2>3, <2>4, <3>1, <3>3 DEF NodeOK, StakedBefore
      <4> QED
        BY <2>4, <3>3, <4>1, <4>2, <4>3 DEF NodeOK
    <3> QED
      BY <3>2, <3>3
  <2>8. NodeInv(n)'
    <3>1. n \in up' /\ (ComesBack(n)' <=> ComesBack(n))
      BY <1>0, <2>1 DEF ComesBack
    <3>2. \A i \in 1 .. Len(t) : t[i] <= height[n]
      BY <1>0, <2>3 DEF ViewsInv, NodeInv
    <3> QED
      BY <2>4, <2>7, <3>1, <3>2 DEF NodeInv
  <2>9. CallsBecome({}) /\ OneUpdate'
    BY <2>1, CallsStay
  <2>10. ASSUME NEW d \in DOMAIN calls', GoodCall(d), d.at = n PROVE GoodCall(d)'
    <3>1. d.pc # "remove"
      BY <1>0, <2>1, <2>10 DEF GoodCall
    <3> QED
      BY <2>1, <2>10, <3>1 DEF GoodCall, ComesBack
  <2> QED
    BY <1>0, <2>1, <2>5, <2>6, <2>8, <2>9, <2>10, ChainStep
<1> QED
  BY <1>1, <1>2

LEMMA UpdatePeerViews ==
    ASSUME ViewsInv, NetOK, UNCHANGED net, NEW n \in net.nodes, NEW p \in net.nodes,
           UpdatePeer(n, p)
    PROVE  ViewsInv'
<1>0. /\ n \in Nodes /\ UNCHANGED <<up, router, height, events>>
      /\ ~ \E c \in DOMAIN calls : c.at = n /\ c.via = "update"
      /\ DOMAIN update = Nodes /\ DOMAIN update[n] = {"add", "remove"}
  BY NetFacts DEF UpdatePeer, node, ViewsInv, Shapes
<1>1. n \in up /\ update[n] # NoUpdate
  <2>1. NoUpdate.add = {} /\ NoUpdate.remove = {}
    BY DEF NoUpdate
  <2>2. update[n] # NoUpdate
    BY <2>1 DEF UpdatePeer
  <2> QED
    BY <1>0, <2>2 DEF ViewsInv, NodeInv
<1>2. ASSUME ~ ComesBack(n)
      PROVE  router[n] # Nil /\ GoodRouter(n) /\ GoodUpdate(n) /\ StakedBefore(n)
  BY <1>0, <1>1, <1>2 DEF ViewsInv, NodeInv, NodeOK
<1>3. ASSUME NEW f \in {"add", "remove"}, NEW u, p \in update[n][f],
             update' = [update EXCEPT ![n] = u], DOMAIN u = {"add", "remove"},
             u.add \subseteq update[n].add, u.remove \subseteq update[n].remove,
             p \notin u[f], calls' = calls \/ UpdateCall(n, p, f)
      PROVE  ViewsInv'
  <2>1. /\ update' = [update EXCEPT ![n] = u]
        /\ DOMAIN u = {"add", "remove"} /\ u.add \subseteq update[n].add
        /\ u.remove \subseteq update[n].remove /\ p \notin u[f]
    BY <1>3
  <2>2. /\ DOMAIN update' = Nodes /\ update'[n] = u
        /\ \A m \in Nodes \ {n} : update'[m] = update[m]
    BY <1>0, <2>1
  <2>3. NodeInv(n)'
    <3>1. ASSUME ~ ComesBack(n) PROVE NodeOK(n)'
      <4>1. GoodUpdate(n)' /\ GoodRouter(n)' /\ StakedBefore(n)'
        BY <1>0, <1>2, <2>1, <2>2, <3>1 DEF GoodUpdate, GoodRouter, StakedBefore
      <4> QED
        BY <1>0, <1>2, <3>1, <4>1 DEF NodeOK
    <3>2. n \in up' /\ (ComesBack(n)' <=> ComesBack(n))
      BY <1>0, <1>1 DEF ComesBack
    <3> QED
      BY <1>0, <3>1, <3>2 DEF NodeInv, ViewsInv
  <2>4. ASSUME NEW d, GoodCall(d), d.at = n PROVE GoodCall(d)'
    BY <1>0, <2>1, <2>2, <2>4 DEF GoodCall, ComesBack
  <2>5. ASSUME Counted(calls') PROVE Shapes'
    <3>1. \A m \in Nodes : DOMAIN update'[m] = {"add", "remove"}
      BY <2>1, <2>2 DEF ViewsInv, Shapes
    <3> QED
      BY <1>0, <2>2, <2>5, <3>1 DEF ViewsInv, Shapes, Counted
  <2>6. CASE calls' = calls
    <3>1. CallsBecome({}) /\ OneUpdate' /\ Counted(calls')
      BY <2>6, CallsStay DEF CallsBecome
    <3> QED
      BY <1>0, <2>2, <2>3, <2>4, <2>5, <3>1, ChainStep
  <2>7. CASE calls' # calls
    <3> DEFINE d == [at |-> n, from |-> p, nonce |-> 0, level |-> 0, via |-> "update",
                     pc |-> f]
    <3>1. calls' = calls (+) SetToBag({d})
      BY <1>3, <2>7 DEF UpdateCall
    <3>2. d.at = n /\ d.from = p /\ d.via = "update" /\ d.pc = f
      OBVIOUS
    <3> HIDE DEF d
    <3>3. CallsBecome({d}) /\ OneUpdate' /\ Counted(calls')
      BY <1>0, <3>1, <3>2, OneUpdateStarts
         DEF ViewsInv, Shapes, GoodCalls, CallsBecome
    <3>4. GoodCall(d)'
      <4>1. ASSUME ~ ComesBack(n)
            PROVE  /\ router[n] # Nil /\ p # n
                   /\ f = "remove" => p \in router[n].peers /\ p \notin update'[n].remove
        BY <1>2, <1>3, <2>1, <2>2, <4>1 DEF GoodUpdate
      <4> QED
        BY <1>0, <1>1, <1>3, <3>2, <4>1 DEF GoodCall, ComesBack
    <3> QED
      BY <1>0, <2>2, <2>3, <2>4, <2>5, <3>2, <3>3, <3>4, ChainStep
  <2> QED
    BY <2>6, <2>7
<1>4. CASE /\ p \in update[n].add /\ update' = [update EXCEPT ![n].add = @ \ {p}]
           /\ calls' = calls \/ UpdateCall(n, p, "add")
  <2> DEFINE u == [update[n] EXCEPT !.add = @ \ {p}]
  <2>1. /\ DOMAIN u = {"add", "remove"} /\ u.add = update[n].add \ {p}
        /\ u.remove = update[n].remove /\ update' = [update EXCEPT ![n] = u]
    BY <1>0, <1>4
  <2> HIDE DEF u
  <2> QED
    BY <1>3, <1>4, <2>1
<1>5. CASE /\ p \in update[n].remove /\ update' = [update EXCEPT ![n].remove = @ \ {p}]
           /\ UpdateCall(n, p, "remove")
  <2> DEFINE u == [update[n] EXCEPT !.remove = @ \ {p}]
  <2>1. /\ DOMAIN u = {"add", "remove"} /\ u.remove = update[n].remove \ {p}
        /\ u.add = update[n].add /\ update' = [update EXCEPT ![n] = u]
    BY <1>0, <1>5
  <2> HIDE DEF u
  <2> QED
    BY <1>3, <1>5, <2>1
<1> QED
  BY <1>4, <1>5 DEF UpdatePeer

-----------------------------------------------------------------------------
(* The view stays in order *)

LEMMA ViewsNode ==
    ASSUME ViewsInv, NetOK, NEW n \in net.nodes, UNCHANGED net,
           \/ Start(n) \/ Crash(n) \/ Broadcast(n) \/ NewHeight(n) \/ HandleNewHeight(n)
           \/ \E m \in net.nodes : Send(n, m) \/ UpdatePeer(n, m)
           \/ \E k \in Msgs : ReadSubscription(n, k)
    PROVE  ViewsInv'
<1>1. CASE Crash(n)
  <2>1. n \in Nodes /\ ProcessEnds(n) /\ UNCHANGED height
    BY <1>1, NetFacts DEF Crash
  <2> QED
    BY <2>1, EndsViews
<1>2. CASE ~ Crash(n)
  BY <1>2, StartViews, BroadcastViews, NewHeightViews, HandleNewHeightViews, SendViews,
     UpdatePeerViews, ReadViews
<1> QED
  BY <1>1, <1>2

LEMMA ViewsCall ==
    ASSUME ViewsInv, NetOK, CallsOK, NEW c \in DOMAIN calls, UNCHANGED net,
           Lose(c) \/ Step(c)
    PROVE  ViewsInv'
BY ForwardViews, HandleStreamViews, QuietStepViews, AddPeerViews, RemovePeerViews,
   AssignViews DEF Step

LEMMA ViewsInit ==
    ASSUME Init, NetOK
    PROVE  ViewsInv
<1>0. 1 \in Heights
  BY GossipAssumption, SMT DEF Heights
<1>1. net.staked[1] \subseteq Nodes
  BY <1>0, NetFacts
<1>2. \A n \in Nodes :
        /\ router[n] = NewRouter(n, net.staked[1]) /\ height[n] = 1
        /\ events[n] = <<>> /\ update[n] = NoUpdate
  BY DEF Init
<1>3. ASSUME NEW n \in Nodes
      PROVE  /\ DOMAIN router[n] = {"view", "peers", "levels"}
             /\ n \notin net.staked[1] => router[n] = Nil
             /\ n \in net.staked[1] => GoodRouter(n)
  <2> DEFINE S == net.staked[1]
             r == NewRouter(n, S)
  <2>1. /\ DOMAIN r = {"view", "peers", "levels"}
        /\ n \notin S => r = Nil
        /\ n \in S => /\ InOrder(r.view, n) /\ n \in r.peers
                      /\ r.peers \subseteq Range(r.view)
    BY <1>1, NewRouterGood
  <2>2. router[n] = r
    BY <1>2
  <2> HIDE DEF r
  <2> QED
    BY <2>1, <2>2 DEF GoodRouter
<1>4. Shapes
  <2>1. \A n \in Nodes : DOMAIN update[n] = {"add", "remove"}
    BY <1>2, NilShape
  <2>2. /\ DOMAIN router = Nodes /\ DOMAIN update = Nodes
        /\ height \in [Nodes -> Heights] /\ events \in [Nodes -> Seq(Heights)]
    BY <1>0, EmptyEvents DEF Init
  <2>3. Counted(calls)
    BY EmptyCounted DEF Init
  <2> QED
    BY <1>3, <2>1, <2>2, <2>3 DEF Shapes
<1>5. ASSUME NEW n \in Nodes PROVE NodeInv(n)
  <2>1. NoUpdate.add = {} /\ NoUpdate.remove = {}
    BY DEF NoUpdate
  <2>2. GoodUpdate(n)
    BY <1>2, <2>1 DEF GoodUpdate
  <2>3. n \in net.staked[1] => StakedBefore(n)
    <3>1. 1 <= 1
      BY SMT
    <3> QED
      BY <1>0, <1>2, <3>1, EmptyEvents DEF StakedBefore
  <2>4. NodeOK(n)
    BY <1>2, <1>3, <2>2, <2>3 DEF NodeOK
  <2> QED
    BY <1>2, <2>4, EmptyEvents DEF NodeInv
<1>6. GoodCalls
  <2>1. DOMAIN calls = {}
    BY EmptyDomain DEF Init
  <2> QED
    BY <2>1 DEF GoodCalls, OneUpdate
<1> QED
  BY <1>4, <1>5, <1>6 DEF ViewsInv

LEMMA InvViewInOrder ==
    ASSUME ViewsInv, NetOK
    PROVE  ViewInOrder
<1> SUFFICES ASSUME NEW n \in up, router[n] # Nil, ~ ComesBack(n)
             PROVE  LET view == router[n].view
                        Rank(a) == IF a >= n THEN a ELSE a + N
                    IN  /\ view # <<>> /\ view[1] = n
                        /\ \A i \in 1 .. Len(view) - 1 : Rank(view[i]) <= Rank(view[i + 1])
                        /\ router[n].peers \subseteq Range(view)
  BY DEF ViewInOrder
<1> DEFINE view == router[n].view
<1>1. InOrder(view, n) /\ router[n].peers \subseteq Range(view)
  BY DEF ViewsInv, NodeInv, NodeOK, GoodRouter, NetOK
<1> HIDE DEF view
<1>2. view # <<>> /\ view[1] = n
  BY <1>1, SMT DEF InOrder
<1>3. ASSUME NEW i \in 1 .. Len(view) - 1
      PROVE  Turn(n, view[i]) <= Turn(n, view[i + 1])
  <2>1. i \in 1 .. Len(view) /\ i + 1 \in 1 .. Len(view) /\ i <= i + 1
    BY <1>1, SMT DEF InOrder
  <2> QED
    BY <1>1, <2>1 DEF InOrder
<1> QED
  BY <1>1, <1>2, <1>3 DEF Turn, view

LEMMA ViewsHold == Spec => []ViewsInv
<1>1. Init /\ DedupInv => ViewsInv
  BY ViewsInit DEF DedupInv
<1>2. ViewsInv /\ DedupInv /\ [Next]_vars => ViewsInv'
  <2> SUFFICES ASSUME ViewsInv, DedupInv, [Next]_vars PROVE ViewsInv'
    OBVIOUS
  <2>0. NetOK /\ CallsOK
    BY DEF DedupInv
  <2>1. CASE Next
    BY <2>0, <2>1, ViewsNode, ViewsCall DEF Next, NextStep
  <2>2. CASE UNCHANGED vars
    <3>1. UNCHANGED <<net, up, router, chain>> /\ calls' = calls
      BY <2>2 DEF vars, node
    <3>2. CallsBecome({})
      BY <3>1, CallsStay
    <3> QED
      BY <3>1, <3>2, NewCalls
  <2> QED
    BY <2>1, <2>2
<1> QED
  BY <1>1, <1>2, DedupHolds, PTL DEF Spec

\* Streams and new heights add and remove peers in calls that run together,
\* by bisection in a view that wraps around (PeersView.Add and Remove).  With
\* any number of nodes, any networks and any heights, the view of a node that
\* never leaves the validators and comes back starts with the node itself,
\* ascends and wraps around once, and has every peer of the peerstore.
THEOREM ViewsStayInOrder == Spec => []ViewInOrder
<1>1. ViewsInv /\ DedupInv => ViewInOrder
  BY InvViewInOrder DEF DedupInv
<1> QED
  BY <1>1, ViewsHold, DedupHolds, PTL

=============================================================================
