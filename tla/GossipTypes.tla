----------------------------- MODULE GossipTypes ----------------------------
(***************************************************************************)
(* The levels of routers and messages, and the views, keep their types.    *)
(* For the views, bisection ends within the list whatever the condition    *)
(* is, also when the view is not in order; for the levels, the number of   *)
(* powers of three below a size grows with the size; and a call that is    *)
(* about to assign new levels has them packed with its own level.          *)
(***************************************************************************)
EXTENDS GossipProofs

USE Zenon

-----------------------------------------------------------------------------
(* Bisection ends, whatever the condition *)

\* Induction, for a set of counterexamples
LEMMA Descent ==
    ASSUME NEW S, S \subseteq Nat, 0 \notin S, \A k \in Nat : k + 1 \in S => k \in S
    PROVE  S = {}
<1> SUFFICES ASSUME S # {}
             PROVE  FALSE
  OBVIOUS
<1>1. PICK m \in S : \A k \in S : m <= k
  BY LeastNat
<1>2. m - 1 \in Nat /\ ~ (m <= m - 1) /\ (m - 1) + 1 = m
  BY <1>1, SMT
<1> QED
  BY <1>1, <1>2

\* What bisection goes on with
Onward(f, T, i, j) ==
    LET h == (i + j) \div 2
    IN  IF i >= j THEN i ELSE IF h \in T THEN f[<<i, h>>] ELSE f[<<h + 1, j>>]

\* f is what bisection gives for pairs that are at most k apart.
BisectsNear(f, n, T, k) ==
    \A i, j \in 0 .. n : j - i <= k => f[<<i, j>>] = Onward(f, T, i, j)

Further(f, n, T) == [b \in (0 .. n) \X (0 .. n) |-> Onward(f, T, b[1], b[2])]

LEMMA FurtherAt ==
    ASSUME NEW n \in Nat, NEW T, NEW f, NEW i \in 0 .. n, NEW j \in 0 .. n
    PROVE  Further(f, n, T)[<<i, j>>] = Onward(f, T, i, j)
<1> DEFINE b == <<i, j>>
<1>1. b \in (0 .. n) \X (0 .. n) /\ b[1] = i /\ b[2] = j
  BY SMT
<1> HIDE DEF b
<1>2. Further(f, n, T)[b] = Onward(f, T, b[1], b[2])
  BY <1>1 DEF Further
<1> QED
  BY <1>1, <1>2 DEF b

LEMMA NearerHalves ==
    ASSUME NEW n \in Nat, NEW i \in 0 .. n, NEW j \in 0 .. n, i < j, NEW k \in Nat, j - i <= k + 1
    PROVE  LET h == (i + j) \div 2
           IN  /\ h \in 0 .. n /\ i <= h /\ h - i <= k
               /\ h + 1 \in 0 .. n /\ h + 1 <= j /\ j - (h + 1) <= k
<1> DEFINE h == (i + j) \div 2
<1>1. i \in Nat /\ j \in Nat /\ j <= n
  BY SMT
<1>2. h \in Nat /\ i <= h /\ h < j
  BY <1>1, Halves
<1> HIDE DEF h
<1>3. /\ h \in 0 .. n /\ i <= h /\ h - i <= k
      /\ h + 1 \in 0 .. n /\ h + 1 <= j /\ j - (h + 1) <= k
  BY <1>1, <1>2, SMT
<1> QED
  BY <1>3 DEF h

\* f and g are the same for pairs that are at most k apart.
SameNear(f, g, n, k) == \A i, j \in 0 .. n : j - i <= k => g[<<i, j>>] = f[<<i, j>>]

LEMMA SameOnward ==
    ASSUME NEW n \in Nat, NEW T, NEW f, NEW g, NEW k \in Nat, SameNear(f, g, n, k),
           NEW i \in 0 .. n, NEW j \in 0 .. n, j - i <= k + 1
    PROVE  Onward(g, T, i, j) = Onward(f, T, i, j)
<1>1. CASE i >= j
  BY <1>1 DEF Onward
<1>2. CASE ~ (i >= j)
  <2> DEFINE h == (i + j) \div 2
  <2>1. i < j
    BY <1>2, SMT
  <2>2. /\ h \in 0 .. n /\ i <= h /\ h - i <= k
        /\ h + 1 \in 0 .. n /\ h + 1 <= j /\ j - (h + 1) <= k
    BY <2>1, NearerHalves
  <2>3. /\ Onward(g, T, i, j) = IF h \in T THEN g[<<i, h>>] ELSE g[<<h + 1, j>>]
        /\ Onward(f, T, i, j) = IF h \in T THEN f[<<i, h>>] ELSE f[<<h + 1, j>>]
    BY <1>2 DEF Onward
  <2> HIDE DEF h
  <2>4. g[<<i, h>>] = f[<<i, h>>] /\ g[<<h + 1, j>>] = f[<<h + 1, j>>]
    BY <2>2 DEF SameNear
  <2> QED
    BY <2>3, <2>4, SMT
<1> QED
  BY <1>1, <1>2

LEMMA FurtherBisects ==
    ASSUME NEW n \in Nat, NEW T, NEW k \in Nat, NEW f, BisectsNear(f, n, T, k)
    PROVE  BisectsNear(Further(f, n, T), n, T, k + 1)
<1> DEFINE g == Further(f, n, T)
<1>1. ASSUME NEW i \in 0 .. n, NEW j \in 0 .. n
      PROVE  g[<<i, j>>] = Onward(f, T, i, j)
  BY FurtherAt, SMT
<1> HIDE DEF g
<1>2. SameNear(f, g, n, k)
  BY <1>1 DEF BisectsNear, SameNear
<1>3. \A i, j \in 0 .. n : j - i <= k + 1 => Onward(g, T, i, j) = Onward(f, T, i, j)
  BY <1>2, SameOnward, SMT
<1> QED
  BY <1>1, <1>3 DEF BisectsNear, g

LEMMA BisectsExists ==
    ASSUME NEW n \in Nat, NEW T
    PROVE  \E f : Bisects(f, n, T)
<1> DEFINE P(k) == \E f : BisectsNear(f, n, T, k)
           S == {k \in Nat : ~ P(k)}
<1>1. P(0)
  <2> DEFINE f == Further(<<>>, n, T)
  <2>1. ASSUME NEW i \in 0 .. n, NEW j \in 0 .. n, j - i <= 0
        PROVE  f[<<i, j>>] = Onward(f, T, i, j)
    <3>1. i >= j
      BY <2>1, SMT
    <3>2. f[<<i, j>>] = Onward(<<>>, T, i, j)
      BY FurtherAt, SMT
    <3> QED
      BY <3>1, <3>2 DEF Onward
  <2> QED
    BY <2>1 DEF BisectsNear
<1>2. ASSUME NEW k \in Nat, P(k)
      PROVE  P(k + 1)
  BY <1>2, FurtherBisects
<1> HIDE DEF P
<1>3. S = {}
  <2>1. S \subseteq Nat /\ 0 \notin S /\ \A k \in Nat : k + 1 \in S => k \in S
    BY <1>1, <1>2
  <2> HIDE DEF S
  <2> QED
    BY <2>1, Descent
<1>4. PICK f : BisectsNear(f, n, T, n)
  BY <1>3 DEF P
<1> DEFINE g == Further(f, n, T)
<1>5. \A i, j \in 0 .. n : j - i <= n
  BY SMT
<1>6. \A i, j \in 0 .. n : f[<<i, j>>] = Onward(f, T, i, j)
  BY <1>4, <1>5 DEF BisectsNear
<1>7. ASSUME NEW i \in 0 .. n, NEW j \in 0 .. n
      PROVE  g[<<i, j>>] = f[<<i, j>>]
  <2>1. g[<<i, j>>] = Onward(f, T, i, j)
    BY FurtherAt, SMT
  <2> QED
    BY <1>6, <2>1
<1>8. g = Further(g, n, T)
  <2> HIDE DEF g
  <2>1. SameNear(f, g, n, n)
    BY <1>7 DEF SameNear
  <2>2. ASSUME NEW i \in 0 .. n, NEW j \in 0 .. n
        PROVE  Onward(g, T, i, j) = Onward(f, T, i, j)
    <3>1. j - i <= n + 1
      BY SMT
    <3> QED
      BY <3>1, <2>1, SameOnward, SMT
  <2>3. \A b \in (0 .. n) \X (0 .. n) : Onward(g, T, b[1], b[2]) = Onward(f, T, b[1], b[2])
    BY <2>2
  <2>4. Further(g, n, T) = Further(f, n, T)
    BY <2>3 DEF Further
  <2> QED
    BY <2>4 DEF g
<1> HIDE DEF g
<1>9. Bisects(g, n, T)
  BY <1>8 DEF Bisects, Further, Onward
<1> QED
  BY <1>9

\* sort.Search stays within the list.
LEMMA SearchInList ==
    ASSUME NEW n \in Nat, NEW T
    PROVE  Search(n, T) \in 0 .. n
<1>1. \E f : Bisects(f, n, T)
  BY BisectsExists
<1>2. PICK f : Bisects(f, n, T) /\ Search(n, T) = f[<<0, n>>]
  BY <1>1, SearchBisects
<1> DEFINE P(k) == \A i, j \in 0 .. n : j - i <= k => f[<<i, j>>] \in 0 .. n
           S == {k \in Nat : ~ P(k)}
<1>3. P(0)
  <2> SUFFICES ASSUME NEW i \in 0 .. n, NEW j \in 0 .. n, j - i <= 0
               PROVE  f[<<i, j>>] \in 0 .. n
    OBVIOUS
  <2>1. i >= j
    BY SMT
  <2>2. PICK h : h = (i + j) \div 2
    OBVIOUS
  <2>3. /\ i >= j => f[<<i, j>>] = i
        /\ ~ (i >= j) /\ h \in T => f[<<i, j>>] = f[<<i, h>>]
        /\ ~ (i >= j) /\ h \notin T => f[<<i, j>>] = f[<<h + 1, j>>]
    BY <1>2, <2>2, BisectsAt, SMT
  <2> QED
    BY <2>1, <2>3
<1>4. ASSUME NEW k \in Nat, P(k)
      PROVE  P(k + 1)
  <2> SUFFICES ASSUME NEW i \in 0 .. n, NEW j \in 0 .. n, j - i <= k + 1
               PROVE  f[<<i, j>>] \in 0 .. n
    OBVIOUS
  <2>1. PICK h : h = (i + j) \div 2
    OBVIOUS
  <2>2. /\ i >= j => f[<<i, j>>] = i
        /\ ~ (i >= j) /\ h \in T => f[<<i, j>>] = f[<<i, h>>]
        /\ ~ (i >= j) /\ h \notin T => f[<<i, j>>] = f[<<h + 1, j>>]
    BY <1>2, <2>1, BisectsAt, SMT
  <2>3. CASE i >= j
    BY <2>2, <2>3
  <2>4. CASE ~ (i >= j)
    <3>1. i < j
      BY <2>4, SMT
    <3>2. h \in 0 .. n /\ h - i <= k /\ h + 1 \in 0 .. n /\ j - (h + 1) <= k
      BY <2>1, <3>1, NearerHalves
    <3>3. f[<<i, h>>] \in 0 .. n /\ f[<<h + 1, j>>] \in 0 .. n
      BY <1>4, <3>2
    <3> QED
      BY <2>2, <2>4, <3>3
  <2> QED
    BY <2>3, <2>4
<1> HIDE DEF P
<1>5. S = {}
  <2>1. S \subseteq Nat /\ 0 \notin S /\ \A k \in Nat : k + 1 \in S => k \in S
    BY <1>3, <1>4
  <2> HIDE DEF S
  <2> QED
    BY <2>1, Descent
<1>6. P(n)
  BY <1>5
<1>7. 0 \in 0 .. n /\ n \in 0 .. n /\ n - 0 <= n
  BY SMT
<1> QED
  BY <1>2, <1>6, <1>7 DEF P

LEMMA IndexInView ==
    ASSUME NEW view \in Seq(Nodes), NEW a
    PROVE  getAddrIndex(view, a) \in 0 .. Len(view)
<1> DEFINE w == Search(Len(view), {i \in 0 .. Len(view) - 1 : view[i + 1] < view[1]})
           s == SubSeq(view, 1, w)
           t == SubSeq(view, w + 1, Len(view))
           i == SearchStrings(s, a)
           j == SearchStrings(t, a)
<1>1. Len(view) \in Nat
  BY SMT
<1>2. w \in 0 .. Len(view)
  BY <1>1, SearchInList
<1>0. getAddrIndex(view, a) = IF i # 0 THEN i ELSE w + j
  BY DEF getAddrIndex
<1> HIDE DEF w
<1>3. Len(s) = w /\ Len(t) = Len(view) - w
  BY <1>2, SMT
<1>4. Len(s) \in Nat /\ Len(t) \in Nat
  BY <1>1, <1>2, <1>3, SMT
<1> HIDE DEF s, t
<1>5. i \in 0 .. Len(s) /\ j \in 0 .. Len(t)
  BY <1>4, SearchInList DEF SearchStrings
<1> HIDE DEF i, j
<1> QED
  BY <1>0, <1>1, <1>2, <1>3, <1>5, SMT

\* Views stay lists of addresses.
LEMMA ViewAddType ==
    ASSUME NEW view \in Seq(Nodes), NEW a \in Nodes
    PROVE  ViewAdd(view, a) \in Seq(Nodes)
<1> DEFINE i == getAddrIndex(view, a)
<1>1. i \in 0 .. Len(view)
  BY IndexInView
<1>0. ViewAdd(view, a) = SubSeq(view, 1, i) \o << a >> \o SubSeq(view, i + 1, Len(view))
  BY DEF ViewAdd, insertElementAtIndex
<1> HIDE DEF i
<1> DEFINE s == SubSeq(view, 1, i)
           t == SubSeq(view, i + 1, Len(view))
<1>2. s \in Seq(Nodes) /\ t \in Seq(Nodes) /\ << a >> \in Seq(Nodes)
  BY <1>1, SMT
<1> HIDE DEF s, t
<1>3. s \o << a >> \in Seq(Nodes)
  BY <1>2, ConcatFacts
<1>4. s \o << a >> \o t \in Seq(Nodes)
  BY <1>2, <1>3, ConcatFacts
<1> QED
  BY <1>0, <1>4 DEF s, t

LEMMA ViewRemoveType ==
    ASSUME NEW view \in Seq(Nodes), NEW a
    PROVE  ViewRemove(view, a) \in Seq(Nodes)
<1> DEFINE i == getAddrIndex(view, a)
<1>1. i \in 0 .. Len(view)
  BY IndexInView
<1>0. ViewRemove(view, a) = IF i = Len(view) THEN view ELSE
        SubSeq(view, 1, i) \o SubSeq(view, i + 2, Len(view))
  BY DEF ViewRemove, removeElementAtIndex
<1> HIDE DEF i
<1> DEFINE s == SubSeq(view, 1, i)
           t == SubSeq(view, i + 2, Len(view))
<1>2. CASE i = Len(view)
  BY <1>0, <1>2
<1>3. CASE i # Len(view)
  <2>1. s \in Seq(Nodes) /\ t \in Seq(Nodes)
    BY <1>1, <1>3, SMT
  <2> HIDE DEF s, t
  <2>2. s \o t \in Seq(Nodes)
    BY <2>1, ConcatFacts
  <2> QED
    BY <1>0, <1>3, <2>2 DEF s, t
<1> QED
  BY <1>2, <1>3

-----------------------------------------------------------------------------
(* Levels *)

LEMMA MaxLevelsGrow ==
    ASSUME NEW s \in Nat, NEW m \in Nat, s <= m
    PROVE  MaxLevels(s) \in Nat /\ MaxLevels(s) <= MaxLevels(m)
<1> DEFINE S == {l \in 0 .. s \div 2 : 3 ^ l < s}
           M == {l \in 0 .. m \div 2 : 3 ^ l < m}
<1>1. S \subseteq M
  BY SMT
<1>2. IsFiniteSet(0 .. m \div 2) /\ M \subseteq 0 .. m \div 2
  BY FS_Interval, SMT
<1>3. MaxLevels(s) = Cardinality(S) /\ MaxLevels(m) = Cardinality(M)
  BY DEF MaxLevels
<1> HIDE DEF S, M
<1>4. IsFiniteSet(M)
  BY <1>2, FS_Subset
<1>5. IsFiniteSet(S) /\ Cardinality(S) <= Cardinality(M)
  BY <1>1, <1>4, FS_Subset
<1>6. Cardinality(S) \in Nat
  BY <1>5, FS_CardinalityType
<1> QED
  BY <1>3, <1>5, <1>6

LEMMA PeersLevels ==
    ASSUME NEW S, S \subseteq Nodes
    PROVE  MaxLevels(Cardinality(S)) \in Levels
<1>1. N \in Nat /\ IsFiniteSet(1 .. N) /\ Cardinality(1 .. N) = N
  <2>1. N \in Nat
    BY GossipAssumption
  <2> QED
    BY <2>1, FS_Interval, SMT
<1>2. Cardinality(S) \in Nat /\ Cardinality(S) <= N
  BY <1>1, NodesFinite, FS_Subset DEF Nodes
<1>3. /\ MaxLevels(Cardinality(S)) \in Nat /\ MaxLevels(Cardinality(S)) <= MaxLevels(N)
      /\ MaxLevels(N) \in Nat
  BY <1>1, <1>2, MaxLevelsGrow, SMT
<1> QED
  BY <1>3, SMT DEF Levels

LEMMA BaseFacts ==
    /\ Base \in Nat \ {0} /\ Levels = 0 .. Base - 1 /\ 0 \in Levels /\ Levels \subseteq Nat
<1>1. N \in Nat
  BY GossipAssumption
<1>2. MaxLevels(N) \in Nat
  BY <1>1, MaxLevelsGrow, SMT
<1> QED
  BY <1>2, SMT DEF Base, Levels

\* What a call carries between the reading of the size and the assignment
LEMMA PackedLevels ==
    ASSUME NEW l \in Levels, NEW m \in Levels
    PROVE  l + Base * m \in 0 .. Base * Base - 1 /\ l + Base * m \in Nat
<1> DEFINE B == Base
<1>1. B \in Nat \ {0} /\ l \in 0 .. B - 1 /\ m \in 0 .. B - 1
  BY BaseFacts
<1> HIDE DEF B
<1>2. B * m <= B * (B - 1) /\ B * m \in Nat
  BY <1>1, SMT
<1>3. B * (B - 1) = B * B - B /\ B * B \in Nat
  BY <1>1, SMT
<1>4. l + B * m \in 0 .. B * B - 1 /\ l + B * m \in Nat
  BY <1>1, <1>2, <1>3, SMT
<1> QED
  BY <1>4 DEF B

LEMMA UnpackedLevels ==
    ASSUME NEW x \in 0 .. Base * Base - 1
    PROVE  x \div Base \in Levels /\ x % Base \in Levels
<1> DEFINE B == Base
<1>1. B \in Nat \ {0} /\ Levels = 0 .. B - 1 /\ x \in 0 .. B * B - 1
  BY BaseFacts
<1> HIDE DEF B
<1>2. x \div B \in 0 .. B - 1
  BY <1>1, SMT
<1>3. x % B \in 0 .. B - 1
  BY <1>1, SMT
<1> QED
  BY <1>1, <1>2, <1>3 DEF B

-----------------------------------------------------------------------------
(* Types of calls *)

\* Between the reading of the size and the assignment, a call carries two
\* levels.
TypedCall(c) ==
    /\ c \in Call
    /\ IF c.pc = "assign" THEN c.level \in 0 .. Base * Base - 1 ELSE c.level \in Levels

TypedCalls == \A c \in DOMAIN calls : TypedCall(c)

LEMMA TypedReplaced ==
    ASSUME TypedCalls, NEW c, NEW new, Replace(c, new), \A d \in DOMAIN new : TypedCall(d)
    PROVE  TypedCalls'
BY ReplaceDomain DEF TypedCalls

LEMMA TypedAdded ==
    ASSUME TypedCalls, NEW new, calls' = calls (+) new, \A d \in DOMAIN new : TypedCall(d)
    PROVE  TypedCalls'
<1>1. DOMAIN calls' = DOMAIN calls \cup DOMAIN new
  BY PlusDomain
<1> QED
  BY <1>1 DEF TypedCalls

LEMMA TypedMoves ==
    ASSUME TypedCalls, NEW c, NEW d, Replace(c, SetToBag({d})), TypedCall(d)
    PROVE  TypedCalls'
<1>1. \A e \in DOMAIN SetToBag({d}) : TypedCall(e)
  BY SetDomain, SMT
<1> QED
  BY <1>1, TypedReplaced

LEMMA TypedReturns ==
    ASSUME TypedCalls, NEW c, Return(c)
    PROVE  TypedCalls'
BY TypedReplaced, EmptyDomain DEF Return

LEMMA TypedEnds ==
    ASSUME TypedCalls, NEW n, ProcessEnds(n)
    PROVE  TypedCalls'
BY DEF TypedCalls, ProcessEnds

LEMMA TypedPC ==
    ASSUME NEW c \in Call, NEW p \in PCs
    PROVE  LET d == [c EXCEPT !.pc = p]
           IN  d \in Call /\ d.pc = p /\ d.level = c.level
BY SMT DEF Call, PCs

LEMMA TypedLevel ==
    ASSUME NEW c \in Call, NEW l \in Nat
    PROVE  LET d == [c EXCEPT !.level = l]
           IN  d \in Call /\ d.pc = c.pc /\ d.level = l
BY SMT DEF Call

\* A call goes on at p with level l.
StandsAt(d, p, l) == d \in Call /\ d.pc = p /\ d.level = l

LEMMA TypedGoesOn ==
    ASSUME NEW c \in Call, NEW p \in PCs, NEW l \in Nat
    PROVE  /\ StandsAt([c EXCEPT !.pc = p, !.level = l], p, l)
           /\ StandsAt([c EXCEPT !.level = l, !.pc = p], p, l)
<1> DEFINE d == [c EXCEPT !.pc = p]
           e == [c EXCEPT !.level = l]
           f == [d EXCEPT !.level = l]
           g == [e EXCEPT !.pc = p]
<1>1. d \in Call /\ d.pc = p /\ e \in Call /\ e.level = l
  BY TypedPC, TypedLevel
<1> HIDE DEF d, e
<1>2. f \in Call /\ f.pc = p /\ f.level = l /\ g \in Call /\ g.pc = p /\ g.level = l
  BY <1>1, TypedPC, TypedLevel, ZenonT(60)
<1> QED
  BY <1>2 DEF d, e, StandsAt

LEMMA TypedGoto ==
    ASSUME TypedCalls, NEW c \in DOMAIN calls, c.pc # "assign", NEW p \in PCs, p # "assign",
           Goto(c, p)
    PROVE  TypedCalls'
<1>1. c \in Call /\ c.level \in Levels
  BY DEF TypedCalls, TypedCall
<1>2. TypedCall([c EXCEPT !.pc = p])
  <2> DEFINE d == [c EXCEPT !.pc = p]
  <2>1. d \in Call /\ d.pc = p /\ d.level = c.level
    BY <1>1, TypedPC
  <2> HIDE DEF d
  <2>2. TypedCall(d)
    BY <1>1, <2>1 DEF TypedCall
  <2> QED
    BY <2>2 DEF d
<1> QED
  BY <1>2, TypedMoves DEF Goto

LEMMA TypedStream ==
    ASSUME up \subseteq Nodes, NEW via \in {"raintree", "background"}, NEW from \in Nodes,
           NEW to, NEW nonce \in Msgs, NEW level \in Levels,
           NEW d \in DOMAIN Libp2pSendToPeer(via, from, to, nonce, level)
    PROVE  TypedCall(d)
<1>1. CASE HasHandler(via, to)
  <2>1. to \in Nodes
    BY <1>1 DEF HasHandler
  <2>2. d = Stream(via, from, to, nonce, level)
    BY <1>1, SetDomain, SMT DEF Libp2pSendToPeer
  <2>3. level \in Nat /\ nonce \in 0 .. MaxMsgs
    BY BaseFacts, SMT DEF Msgs
  <2>4. d \in Call /\ d.pc = "stream" /\ d.level = level
    BY <2>1, <2>2, <2>3, SMT DEF Stream, Call
  <2> QED
    BY <2>4 DEF TypedCall
<1>2. CASE ~ HasHandler(via, to)
  BY <1>2, EmptyDomain DEF Libp2pSendToPeer
<1> QED
  BY <1>1, <1>2

LEMMA BroadcastTyped ==
    ASSUME NetOK, TypedCalls, NEW n \in net.nodes, router[n].levels \in Levels, Broadcast(n)
    PROVE  TypedCalls'
<1>1. n \in Nodes /\ sent' \in Msgs
  BY NetFacts, NextNonce DEF Broadcast
<1>2. CASE IsStakedActor(n)
  <2> DEFINE d == [at |-> n, from |-> n, nonce |-> sent', pc |-> "forward",
                   level |-> router[n].levels, via |-> "raintree"]
  <2>1. sent' \in 0 .. MaxMsgs /\ router[n].levels \in Nat
    BY <1>1, BaseFacts, SMT DEF Msgs
  <2>2. d \in Call /\ d.pc = "forward" /\ d.level = router[n].levels
    BY <1>1, <2>1, SMT DEF Call
  <2>3. calls' = calls (+) SetToBag({d})
    BY <1>2 DEF Broadcast
  <2> HIDE DEF d
  <2>4. \A e \in DOMAIN SetToBag({d}) : TypedCall(e)
    BY <2>2, SetDomain, SMT DEF TypedCall
  <2> QED
    BY <2>3, <2>4, TypedAdded
<1>3. CASE ~ IsStakedActor(n)
  BY <1>3 DEF Broadcast, TypedCalls
<1> QED
  BY <1>2, <1>3

LEMMA SendTyped ==
    ASSUME NetOK, TypedCalls, NEW n \in net.nodes, NEW m, Send(n, m)
    PROVE  TypedCalls'
<1>1. n \in Nodes /\ sent' \in Msgs /\ up \subseteq Nodes /\ 0 \in Levels
  BY NetFacts, NextNonce, BaseFacts DEF Send, NetOK
<1>2. CASE ProcessEnds(n)
  BY <1>2, TypedEnds
<1>3. ASSUME NEW via \in {"raintree", "background"},
             calls' = calls (+) Libp2pSendToPeer(via, n, m, sent', 0)
      PROVE  TypedCalls'
  <2> DEFINE new == Libp2pSendToPeer(via, n, m, sent', 0)
  <2>1. \A d \in DOMAIN new : TypedCall(d)
    BY <1>1, TypedStream
  <2>2. calls' = calls (+) new
    BY <1>3
  <2> HIDE DEF new
  <2> QED
    BY <2>1, <2>2, TypedAdded
<1>4. CASE calls' = calls
  BY <1>4 DEF TypedCalls
<1> QED
  BY <1>2, <1>3, <1>4 DEF Send, BackgroundSend

LEMMA ForwardTyped ==
    ASSUME NetOK, CallsOK, TypedCalls, NEW c \in DOMAIN calls, Forward(c)
    PROVE  TypedCalls'
<1> DEFINE to(k) == getTarget(c.at, k, c.level)
           copy(k) == IF to(k) = 0 THEN EmptyBag
                      ELSE Libp2pSendToPeer("raintree", c.at, to(k), c.nonce, c.level)
           rest == IF c.level > 1 THEN {[c EXCEPT !.level = @ - 1]}
                   ELSE IF c.from = c.at THEN {}
                   ELSE {[c EXCEPT !.level = 0, !.pc = "check"]}
           sends == IF c.level = 0 THEN EmptyBag ELSE copy(1) (+) copy(2)
<1>1. /\ c \in Call /\ c.pc = "forward" /\ c.nonce \in Msgs /\ c.at \in Nodes
      /\ up \subseteq Nodes /\ c.level \in Levels
  BY DEF CallsOK, IsCall, Forward, UpdatePCs, NetOK, TypedCalls, TypedCall
<1>2. Replace(c, sends (+) SetToBag(rest))
  BY DEF Forward
<1>3. ASSUME NEW k, NEW d \in DOMAIN copy(k)
      PROVE  TypedCall(d)
  <2> HIDE DEF to
  <2> QED
    BY <1>1, TypedStream, EmptyDomain
<1>4. \A d \in rest : TypedCall(d)
  <2> DEFINE d == [c EXCEPT !.level = c.level - 1]
             e == [c EXCEPT !.level = 0, !.pc = "check"]
  <2>1. StandsAt(e, "check", 0)
    <3>1. "check" \in PCs /\ 0 \in Nat
      BY SMT DEF PCs
    <3> QED
      BY <1>1, <3>1, TypedGoesOn
  <2>2. TypedCall(e)
    <3> HIDE DEF e
    <3> QED
      BY <2>1, BaseFacts DEF TypedCall, StandsAt
  <2>3. CASE c.level > 1
    <3>1. c.level - 1 \in Levels /\ c.level - 1 \in Nat
      BY <1>1, <2>3, BaseFacts, SMT
    <3>2. d \in Call /\ d.pc = "forward" /\ d.level = c.level - 1
      BY <1>1, <3>1, TypedLevel
    <3>3. rest = {d}
      BY <2>3
    <3> HIDE DEF d, e, rest
    <3> QED
      BY <3>1, <3>2, <3>3 DEF TypedCall
  <2>4. CASE ~ (c.level > 1)
    <3>1. rest \subseteq {e}
      BY <2>4
    <3> HIDE DEF d, e, rest
    <3> QED
      BY <2>2, <3>1
  <2> QED
    BY <2>3, <2>4
<1> HIDE DEF copy, rest
<1>5. \A d \in DOMAIN sends : TypedCall(d)
  <2>1. DOMAIN (copy(1) (+) copy(2)) = DOMAIN copy(1) \cup DOMAIN copy(2)
    BY PlusDomain
  <2> QED
    BY <1>3, <2>1, EmptyDomain
<1> HIDE DEF sends
<1>6. DOMAIN (sends (+) SetToBag(rest)) = DOMAIN sends \cup rest
  <2>1. DOMAIN SetToBag(rest) = rest
    BY SetDomain
  <2>2. DOMAIN (sends (+) SetToBag(rest)) = DOMAIN sends \cup DOMAIN SetToBag(rest)
    BY PlusDomain
  <2> QED
    BY <2>1, <2>2
<1> QED
  BY <1>2, <1>4, <1>5, <1>6, TypedReplaced

LEMMA HandleStreamTyped ==
    ASSUME TypedCalls, NEW c \in DOMAIN calls, HandleStream(c)
    PROVE  TypedCalls'
<1> DEFINE d == Demoted(c)
           e == [d EXCEPT !.pc = "add"]
           p == IF c.level > 1 THEN "forward" ELSE "check"
           l == IF c.level > 0 THEN c.level - 1 ELSE 0
           known == IF c.via = "raintree" THEN router[c.at].peers ELSE pstore[c.at]
<1>1. c \in Call /\ c.level \in Levels
  BY DEF TypedCalls, TypedCall, HandleStream
<1>2. l \in Levels /\ l \in Nat /\ p \in PCs /\ "add" \in PCs /\ p # "assign"
  BY <1>1, BaseFacts, SMT DEF PCs
<1>3. d = [c EXCEPT !.pc = p, !.level = l]
  BY DEF Demoted
<1>4. Replace(c, SetToBag({IF c.from \in known THEN d ELSE e}))
  BY DEF HandleStream
<1> HIDE DEF d, p, l
<1>5. StandsAt(d, p, l)
  BY <1>1, <1>2, <1>3, TypedGoesOn
<1>6. e \in Call /\ e.pc = "add" /\ e.level = l
  BY <1>2, <1>5, TypedPC DEF StandsAt
<1> HIDE DEF e
<1>7. TypedCall(d) /\ TypedCall(e)
  BY <1>2, <1>5, <1>6 DEF TypedCall, StandsAt
<1> QED
  BY <1>4, <1>7, TypedMoves

LEMMA MeasureTyped ==
    ASSUME TypedCalls, NEW c \in DOMAIN calls, router[c.at].peers \subseteq Nodes, Measure(c)
    PROVE  TypedCalls'
<1> DEFINE l == c.level + Base * MaxLevels(Cardinality(router[c.at].peers))
           d == [c EXCEPT !.pc = "assign", !.level = l]
<1>1. c \in Call /\ c.level \in Levels
  BY DEF TypedCalls, TypedCall, Measure
<1>2. l \in 0 .. Base * Base - 1 /\ l \in Nat
  BY <1>1, PeersLevels, PackedLevels
<1>3. Replace(c, SetToBag({d})) /\ "assign" \in PCs
  BY DEF Measure, PCs
<1> HIDE DEF l
<1>4. StandsAt(d, "assign", l)
  BY <1>1, <1>2, <1>3, TypedGoesOn
<1> HIDE DEF d
<1> QED
  BY <1>2, <1>3, <1>4, TypedMoves DEF TypedCall, StandsAt

LEMMA AssignTyped ==
    ASSUME TypedCalls, NEW c \in DOMAIN calls, Assign(c)
    PROVE  c.level \div Base \in Levels /\ TypedCalls'
<1> DEFINE l == c.level % Base
           d == [c EXCEPT !.pc = "forward", !.level = l]
<1>1. c \in Call /\ c.level \in 0 .. Base * Base - 1
  BY DEF TypedCalls, TypedCall, Assign
<1>2. c.level \div Base \in Levels /\ l \in Levels
  BY <1>1, UnpackedLevels
<1>3. CASE Return(c)
  BY <1>2, <1>3, TypedReturns
<1>4. CASE Replace(c, SetToBag({d}))
  <2>1. l \in Nat /\ "forward" \in PCs
    BY <1>2, BaseFacts DEF PCs
  <2> HIDE DEF l
  <2>2. StandsAt(d, "forward", l)
    BY <1>1, <2>1, TypedGoesOn
  <2> HIDE DEF d
  <2>3. TypedCall(d)
    BY <1>2, <2>2 DEF TypedCall, StandsAt
  <2> QED
    BY <1>2, <1>4, <2>3, TypedMoves
<1> QED
  BY <1>3, <1>4 DEF Assign

LEMMA ReadTyped ==
    ASSUME NetOK, TypedCalls, NEW n \in net.nodes, NEW k \in Msgs, ReadSubscription(n, k)
    PROVE  TypedCalls'
<1> DEFINE d == [at |-> n, from |-> n, nonce |-> k, level |-> 0, via |-> "background",
                 pc |-> "check"]
<1>1. n \in Nodes /\ k \in 0 .. MaxMsgs
  BY NetFacts, SMT DEF Msgs
<1>2. d \in Call /\ d.pc = "check" /\ d.level = 0
  BY <1>1, SMT DEF Call
<1>3. calls' = calls (+) SetToBag({d})
  BY DEF ReadSubscription
<1> HIDE DEF d
<1>4. \A e \in DOMAIN SetToBag({d}) : TypedCall(e)
  BY <1>2, BaseFacts, SetDomain, SMT DEF TypedCall
<1> QED
  BY <1>3, <1>4, TypedAdded

LEMMA UpdateTyped ==
    ASSUME NetOK, TypedCalls, NEW n \in net.nodes, NEW p \in net.nodes, UpdatePeer(n, p)
    PROVE  TypedCalls'
<1>1. ASSUME NEW pc \in {"add", "remove"}, UpdateCall(n, p, pc)
      PROVE  TypedCalls'
  <2> DEFINE d == [at |-> n, from |-> p, nonce |-> 0, level |-> 0, via |-> "update", pc |-> pc]
  <2>1. n \in Nodes /\ p \in Nodes /\ 0 \in 0 .. MaxMsgs
    BY NetFacts, GossipAssumption, SMT
  <2>2. d \in Call /\ d.pc \in {"add", "remove"} /\ d.level = 0
    BY <2>1, SMT DEF Call
  <2>3. calls' = calls (+) SetToBag({d})
    BY <1>1 DEF UpdateCall
  <2> HIDE DEF d
  <2>4. \A e \in DOMAIN SetToBag({d}) : TypedCall(e)
    BY <2>2, BaseFacts, SetDomain, SMT DEF TypedCall
  <2> QED
    BY <2>3, <2>4, TypedAdded
<1>2. CASE calls' = calls
  BY <1>2 DEF TypedCalls
<1> QED
  BY <1>1, <1>2 DEF UpdatePeer

\* The other steps of a call
LEMMA QuietStepTyped ==
    ASSUME TypedCalls, NEW c \in DOMAIN calls,
           \/ Lose(c) \/ AddPeer(c) \/ BackgroundAddPeer(c) \/ RemovePeer(c)
           \/ Check(c) \/ Observe(c)
    PROVE  TypedCalls'
<1>1. CASE Return(c)
  BY <1>1, TypedReturns
<1>2. ASSUME NEW p \in {"measure", "check", "observe"}, c.pc \in {"add", "remove", "check"},
             Goto(c, p)
      PROVE  TypedCalls'
  <2>1. p \in PCs /\ p # "assign" /\ c.pc # "assign"
    BY <1>2 DEF PCs
  <2> QED
    BY <1>2, <2>1, TypedGoto
<1> QED
  BY <1>1, <1>2 DEF Lose, AddPeer, BackgroundAddPeer, RemovePeer, Check, Observe

-----------------------------------------------------------------------------
(* Types of what a node holds *)

RouterType == [view : Seq(Nodes), peers : SUBSET Nodes, levels : Levels]

UpdateType == [add : SUBSET Nodes, remove : SUBSET Nodes]

RunTypes ==
    /\ router \in [Nodes -> RouterType] /\ pstore \in [Nodes -> SUBSET Nodes]
    /\ topic \in SUBSET (Msgs \X Nodes) /\ update \in [Nodes -> UpdateType]

LEMMA NilTyped == Nil \in RouterType /\ NoUpdate \in UpdateType
<1>1. <<>> \in Seq(Nodes) /\ 0 \in Levels
  BY BaseFacts, SMT
<1>2. Nil \in RouterType
  BY <1>1, SMT DEF Nil, RouterType
<1>3. NoUpdate \in UpdateType
  BY SMT DEF NoUpdate, UpdateType
<1> QED
  BY <1>2, <1>3

LEMMA NewRouterTyped ==
    ASSUME NEW n \in Nodes, NEW S, S \subseteq Nodes
    PROVE  NewRouter(n, S) \in RouterType
<1>1. CASE n \in S
  <2> DEFINE v == sortAddrs(n, S)
             l == MaxLevels(Cardinality(S))
  <2>1. v \in Seq(Nodes) /\ l \in Levels
    BY <1>1, SortAddrsInOrder, PeersLevels DEF InOrder
  <2>2. NewRouter(n, S) = [view |-> v, peers |-> S, levels |-> l]
    BY <1>1 DEF NewRouter, NewPeerManager
  <2> HIDE DEF v, l
  <2> QED
    BY <2>1, <2>2, SMT DEF RouterType
<1>2. CASE n \notin S
  BY <1>2, NilTyped DEF NewRouter
<1> QED
  BY <1>1, <1>2

LEMMA StartTypes ==
    ASSUME NetOK, height \in [Nodes -> Heights], RunTypes, NEW n \in net.nodes, Start(n)
    PROVE  RunTypes'
<1>1. n \in Nodes /\ StakedPeerstore(n) \subseteq Nodes
  BY NetFacts DEF StakedPeerstore
<1> DEFINE S == StakedPeerstore(n)
           r == NewRouter(n, S)
<1>2. r \in RouterType
  BY <1>1, NewRouterTyped
<1>3. /\ router' = [router EXCEPT ![n] = r] /\ pstore' = [pstore EXCEPT ![n] = S]
      /\ topic' = topic /\ update' = update
  BY DEF Start, SetupBackground, chain
<1> HIDE DEF S, r
<1>4. S \in SUBSET Nodes
  BY <1>1 DEF S
<1> QED
  BY <1>1, <1>2, <1>3, <1>4 DEF RunTypes

LEMMA EndsTypes ==
    ASSUME RunTypes, NEW n \in Nodes, ProcessEnds(n)
    PROVE  RunTypes'
<1>1. router' \in [Nodes -> RouterType]
  BY NilTyped DEF RunTypes, ProcessEnds
<1>2. pstore' \in [Nodes -> SUBSET Nodes]
  BY SMT DEF RunTypes, ProcessEnds
<1>3. topic' \in SUBSET (Msgs \X Nodes)
  BY DEF RunTypes, ProcessEnds
<1>4. update' \in [Nodes -> UpdateType]
  BY NilTyped DEF RunTypes, ProcessEnds
<1> QED
  BY <1>1, <1>2, <1>3, <1>4 DEF RunTypes

LEMMA PublishTypes ==
    ASSUME NetOK, RunTypes, NEW k \in Msgs, PublishToTopic(k), UNCHANGED <<router, pstore, update>>
    PROVE  RunTypes'
<1>1. up \subseteq Nodes
  BY DEF NetOK
<1>2. {k} \X (up \cap net.readers) \subseteq Msgs \X Nodes
  BY <1>1
<1> QED
  BY <1>2 DEF RunTypes, PublishToTopic

\* A router with other peers and another view
LEMMA RouterTyped ==
    ASSUME NEW r \in RouterType, NEW S \in SUBSET Nodes, NEW v \in Seq(Nodes)
    PROVE  [[r EXCEPT !.peers = S] EXCEPT !.view = v] \in RouterType
<1> DEFINE s == [r EXCEPT !.peers = S]
<1>1. s \in RouterType
  BY SMT DEF RouterType
<1> HIDE DEF s
<1> DEFINE V == Seq(Nodes)
<1>2. v \in V /\ s \in [view : V, peers : SUBSET Nodes, levels : Levels]
  BY <1>1 DEF RouterType
<1> HIDE DEF V
<1>3. [s EXCEPT !.view = v] \in [view : V, peers : SUBSET Nodes, levels : Levels]
  BY <1>2, SMT
<1> QED
  BY <1>3 DEF s, V, RouterType

LEMMA AddPeerTypes ==
    ASSUME RunTypes, NEW c, c.at \in Nodes, c.from \in Nodes, AddPeer(c)
    PROVE  RunTypes'
<1> DEFINE n == c.at
           r == router[n]
           view == ViewAdd(r.view, c.from)
           peers == r.peers \cup {c.from}
           s == [[r EXCEPT !.peers = peers] EXCEPT !.view = view]
<1>1. r \in RouterType /\ r.view \in Seq(Nodes) /\ r.peers \subseteq Nodes
  BY SMT DEF RunTypes, RouterType
<1>2. view \in Seq(Nodes) /\ peers \in SUBSET Nodes
  BY <1>1, ViewAddType
<1>3. router' = [router EXCEPT ![n] = s]
  BY DEF AddPeer
<1> HIDE DEF view, peers
<1>4. s \in RouterType
  BY <1>1, <1>2, RouterTyped
<1> HIDE DEF s
<1>5. router' \in [Nodes -> RouterType]
  BY <1>3, <1>4 DEF RunTypes
<1> QED
  BY <1>5 DEF RunTypes, AddPeer, chain

LEMMA RemovePeerTypes ==
    ASSUME RunTypes, NEW c, c.at \in Nodes, RemovePeer(c)
    PROVE  RunTypes'
<1> DEFINE n == c.at
           r == router[n]
           view == ViewRemove(r.view, c.from)
           peers == r.peers \ {c.from}
           s == [[r EXCEPT !.peers = peers] EXCEPT !.view = view]
<1>1. r \in RouterType /\ r.view \in Seq(Nodes) /\ r.peers \subseteq Nodes
  BY SMT DEF RunTypes, RouterType
<1>2. view \in Seq(Nodes) /\ peers \in SUBSET Nodes
  BY <1>1, ViewRemoveType
<1>3. router' = [router EXCEPT ![n] = s]
  BY DEF RemovePeer
<1> HIDE DEF view, peers
<1>4. s \in RouterType
  BY <1>1, <1>2, RouterTyped
<1> HIDE DEF s
<1>5. router' \in [Nodes -> RouterType]
  BY <1>3, <1>4 DEF RunTypes
<1> QED
  BY <1>5 DEF RunTypes, RemovePeer, chain

LEMMA AssignTypes ==
    ASSUME RunTypes, NEW c, c.at \in Nodes, c.level \div Base \in Levels, Assign(c)
    PROVE  RunTypes'
<1> DEFINE n == c.at
           r == router[n]
           l == c.level \div Base
           s == [r EXCEPT !.levels = l]
<1>1. r \in RouterType
  BY DEF RunTypes
<1>4. router' = [router EXCEPT ![n] = s]
  BY DEF Assign
<1> HIDE DEF l
<1>2. l \in Levels
  BY DEF l
<1>3. s \in RouterType
  BY <1>1, <1>2, SMT DEF RouterType
<1> HIDE DEF s
<1>5. router' \in [Nodes -> RouterType]
  BY <1>3, <1>4 DEF RunTypes
<1> QED
  BY <1>5 DEF RunTypes, Assign, chain

LEMMA BackgroundAddTypes ==
    ASSUME RunTypes, NEW c, c.at \in Nodes, c.from \in Nodes, BackgroundAddPeer(c)
    PROVE  RunTypes'
<1>1. pstore' \in [Nodes -> SUBSET Nodes]
  BY SMT DEF RunTypes, BackgroundAddPeer
<1> QED
  BY <1>1 DEF RunTypes, BackgroundAddPeer, chain

LEMMA ReadTypes ==
    ASSUME RunTypes, NEW n, NEW k, ReadSubscription(n, k)
    PROVE  RunTypes'
BY DEF RunTypes, ReadSubscription, node, chain

LEMMA HandleNewHeightTypes ==
    ASSUME NetOK, events \in [Nodes -> Seq(Heights)], RunTypes, NEW n \in net.nodes,
           HandleNewHeight(n)
    PROVE  RunTypes'
<1>1. n \in Nodes
  BY NetFacts
<1>2. CASE ProcessEnds(n)
  BY <1>1, <1>2, EndsTypes
<1>3. CASE ~ ProcessEnds(n)
  <2> DEFINE old == router[n].peers
             new == net.staked[Head(events[n])]
             u == IF IsStakedActor(n) THEN [add |-> new \ old, remove |-> old \ new] ELSE NoUpdate
  <2>1. events[n] \in Seq(Heights) /\ events[n] # <<>>
    BY <1>1 DEF HandleNewHeight
  <2>2. Head(events[n]) \in Heights
    BY <2>1, SMT
  <2>3. new \subseteq Nodes
    BY <2>2, NetFacts
  <2>4. old \subseteq Nodes
    BY <1>1, SMT DEF RunTypes, RouterType
  <2>5. update' = [update EXCEPT ![n] = u] /\ UNCHANGED <<router, pstore, topic>>
    BY <1>3 DEF HandleNewHeight, node
  <2> HIDE DEF old, new
  <2>6. [add |-> new \ old, remove |-> old \ new] \in UpdateType
    BY <2>3, <2>4, SMT DEF UpdateType
  <2>7. u \in UpdateType
    BY <2>6, NilTyped
  <2> HIDE DEF u
  <2> QED
    BY <1>1, <2>5, <2>7 DEF RunTypes
<1> QED
  BY <1>2, <1>3

LEMMA UpdatePeerTypes ==
    ASSUME RunTypes, NEW n \in Nodes, NEW p, UpdatePeer(n, p)
    PROVE  RunTypes'
<1>1. UNCHANGED <<router, pstore, topic>>
  BY DEF UpdatePeer, node
<1>2. update[n] \in UpdateType
  BY DEF RunTypes
<1>3. CASE update' = [update EXCEPT ![n].add = @ \ {p}]
  <2> DEFINE u == [update[n] EXCEPT !.add = update[n].add \ {p}]
  <2>1. u \in UpdateType
    BY <1>2, SMT DEF UpdateType
  <2>2. update' = [update EXCEPT ![n] = u]
    BY <1>3
  <2> HIDE DEF u
  <2> QED
    BY <1>1, <2>1, <2>2 DEF RunTypes
<1>4. CASE update' = [update EXCEPT ![n].remove = @ \ {p}]
  <2> DEFINE u == [update[n] EXCEPT !.remove = update[n].remove \ {p}]
  <2>1. u \in UpdateType
    BY <1>2, SMT DEF UpdateType
  <2>2. update' = [update EXCEPT ![n] = u]
    BY <1>4
  <2> HIDE DEF u
  <2> QED
    BY <1>1, <2>1, <2>2 DEF RunTypes
<1> QED
  BY <1>3, <1>4 DEF UpdatePeer

-----------------------------------------------------------------------------
(* Types of what is counted *)

CountTypes ==
    sent \in 0 .. MaxMsgs /\ origin \in [Msgs -> 0 .. N] /\ faults \in 0 .. net.faults

LEMMA SentTypes ==
    ASSUME NetOK, CountTypes, UNCHANGED net, NEW n \in net.nodes,
           Broadcast(n) \/ \E m \in net.nodes : Send(n, m)
    PROVE  CountTypes'
<1>1. sent < net.msgs /\ sent' = sent + 1 /\ UNCHANGED faults
  BY DEF Broadcast, Send
<1>2. sent' \in Msgs
  BY <1>1, NextNonce
<1>3. sent' \in 0 .. MaxMsgs
  BY <1>2, SMT DEF Msgs
<1>4. n \in 0 .. N
  <2>1. n \in Nodes
    BY NetFacts
  <2> QED
    BY <2>1, SMT DEF Nodes
<1>5. origin' = origin \/ origin' = [origin EXCEPT ![sent'] = n]
  BY DEF Broadcast, Send
<1>6. origin' \in [Msgs -> 0 .. N]
  BY <1>4, <1>5 DEF CountTypes
<1> QED
  BY <1>1, <1>3, <1>6 DEF CountTypes

LEMMA FaultTypes ==
    ASSUME NetOK, CountTypes, UNCHANGED <<net, sent, origin>>, faults < net.faults,
           faults' = faults + 1
    PROVE  CountTypes'
<1>1. net.faults \in Nat
  BY GossipAssumption, SMT DEF NetOK
<1>2. faults' \in 0 .. net.faults
  BY <1>1, SMT DEF CountTypes
<1> QED
  BY <1>2 DEF CountTypes

-----------------------------------------------------------------------------
(* Types *)

TypesInv == RunTypes /\ CountTypes /\ TypedCalls

LEMMA TypesNode ==
    ASSUME TypesInv, ViewsInv, NetOK, NEW n \in net.nodes, UNCHANGED net,
           \/ Start(n) \/ Crash(n) \/ Broadcast(n) \/ NewHeight(n) \/ HandleNewHeight(n)
           \/ \E m \in net.nodes : Send(n, m) \/ UpdatePeer(n, m)
           \/ \E k \in Msgs : ReadSubscription(n, k)
    PROVE  TypesInv'
<1>0. /\ RunTypes /\ CountTypes /\ TypedCalls /\ n \in Nodes
      /\ height \in [Nodes -> Heights] /\ events \in [Nodes -> Seq(Heights)]
  BY NetFacts DEF TypesInv, ViewsInv, Shapes
<1>1. CASE Start(n)
  <2>1. TypedCalls' /\ CountTypes'
    BY <1>0, <1>1 DEF Start, TypedCalls, CountTypes
  <2> QED
    BY <1>0, <1>1, <2>1, StartTypes DEF TypesInv
<1>2. CASE Crash(n)
  <2>1. ProcessEnds(n) /\ faults < net.faults /\ faults' = faults + 1 /\ UNCHANGED <<sent, origin>>
    BY <1>2 DEF Crash
  <2> QED
    BY <1>0, <2>1, EndsTypes, TypedEnds, FaultTypes DEF TypesInv
<1>3. CASE Broadcast(n)
  <2>1. router[n].levels \in Levels
    BY <1>0, SMT DEF RunTypes, RouterType
  <2>2. sent' \in Msgs /\ PublishToTopic(sent') /\ UNCHANGED <<router, pstore, update>>
    BY <1>3, NextNonce DEF Broadcast, node, chain
  <2>3. RunTypes'
    BY <1>0, <2>2, PublishTypes
  <2> QED
    BY <1>0, <1>3, <2>1, <2>3, BroadcastTyped, SentTypes DEF TypesInv
<1>4. CASE NewHeight(n)
  BY <1>0, <1>4 DEF TypesInv, NewHeight, TypedCalls, CountTypes, RunTypes, node
<1>5. CASE HandleNewHeight(n)
  <2>1. TypedCalls'
    BY <1>0, <1>5, TypedEnds DEF HandleNewHeight, TypedCalls
  <2>2. CountTypes'
    BY <1>0, <1>5 DEF HandleNewHeight, CountTypes
  <2> QED
    BY <1>0, <1>5, <2>1, <2>2, HandleNewHeightTypes DEF TypesInv
<1>6. ASSUME NEW m \in net.nodes, Send(n, m)
      PROVE  TypesInv'
  <2>1. RunTypes'
    BY <1>0, <1>6, EndsTypes DEF Send, RunTypes, node, chain
  <2> QED
    BY <1>0, <1>6, <2>1, SendTyped, SentTypes DEF TypesInv
<1>7. ASSUME NEW m \in net.nodes, UpdatePeer(n, m)
      PROVE  TypesInv'
  <2>1. CountTypes'
    BY <1>0, <1>7 DEF UpdatePeer, CountTypes
  <2> QED
    BY <1>0, <1>7, <2>1, UpdatePeerTypes, UpdateTyped DEF TypesInv
<1>8. ASSUME NEW k \in Msgs, ReadSubscription(n, k)
      PROVE  TypesInv'
  <2>1. CountTypes'
    BY <1>0, <1>8 DEF ReadSubscription, CountTypes
  <2> QED
    BY <1>0, <1>8, <2>1, ReadTypes, ReadTyped DEF TypesInv
<1> QED
  BY <1>1, <1>2, <1>3, <1>4, <1>5, <1>6, <1>7, <1>8

LEMMA TypesCall ==
    ASSUME TypesInv, NetOK, CallsOK, NEW c \in DOMAIN calls, UNCHANGED net, Lose(c) \/ Step(c)
    PROVE  TypesInv'
<1>0. RunTypes /\ CountTypes /\ TypedCalls /\ c.at \in Nodes /\ c.from \in Nodes
  BY DEF TypesInv, CallsOK, IsCall
<1>1. CASE Lose(c)
  <2>1. /\ faults < net.faults /\ faults' = faults + 1 /\ UNCHANGED <<sent, origin>>
        /\ UNCHANGED <<router, pstore, topic, update>>
    BY <1>1 DEF Lose, node, chain
  <2>2. RunTypes'
    BY <1>0, <2>1 DEF RunTypes
  <2> QED
    BY <1>0, <1>1, <2>1, <2>2, QuietStepTyped, FaultTypes DEF TypesInv
<1>2. CASE Step(c)
  <2>1. CountTypes'
    BY <1>0, <1>2 DEF Step, HandleStream, AddPeer, BackgroundAddPeer, RemovePeer, Measure,
       Assign, Forward, Check, Observe, CountTypes
  <2>2. CASE AddPeer(c)
    BY <1>0, <2>1, <2>2, AddPeerTypes, QuietStepTyped DEF TypesInv
  <2>3. CASE RemovePeer(c)
    BY <1>0, <2>1, <2>3, RemovePeerTypes, QuietStepTyped DEF TypesInv
  <2>4. CASE BackgroundAddPeer(c)
    BY <1>0, <2>1, <2>4, BackgroundAddTypes, QuietStepTyped DEF TypesInv
  <2>5. CASE Assign(c)
    BY <1>0, <2>1, <2>5, AssignTypes, AssignTyped DEF TypesInv
  <2>6. CASE HandleStream(c) \/ Measure(c) \/ Forward(c) \/ Check(c) \/ Observe(c)
    <3>1. UNCHANGED <<router, pstore, topic, update>>
      BY <2>6 DEF HandleStream, Measure, Forward, Check, Observe, node, chain
    <3>2. RunTypes'
      BY <1>0, <3>1 DEF RunTypes
    <3>3. router[c.at].peers \subseteq Nodes
      BY <1>0, SMT DEF RunTypes, RouterType
    <3>4. TypedCalls'
      BY <1>0, <2>6, <3>3, HandleStreamTyped, MeasureTyped, ForwardTyped, QuietStepTyped
    <3> QED
      BY <2>1, <3>2, <3>4 DEF TypesInv
  <2> QED
    BY <1>2, <2>2, <2>3, <2>4, <2>5, <2>6 DEF Step
<1> QED
  BY <1>1, <1>2

LEMMA TypesInit ==
    ASSUME Init, NetOK
    PROVE  TypesInv
<1>0. 1 \in Heights
  BY GossipAssumption, SMT DEF Heights
<1>1. net.staked[1] \subseteq Nodes
  BY <1>0, NetFacts
<1>2. router \in [Nodes -> RouterType]
  BY <1>1, NewRouterTyped DEF Init
<1>3. RunTypes
  BY <1>1, <1>2, NilTyped DEF Init, RunTypes
<1>4. net.faults \in Nat /\ MaxMsgs \in Nat /\ N \in Nat
  BY GossipAssumption, SMT DEF NetOK
<1>5. CountTypes
  BY <1>4, SMT DEF Init, CountTypes
<1>6. TypedCalls
  BY EmptyDomain DEF Init, TypedCalls
<1> QED
  BY <1>3, <1>5, <1>6 DEF TypesInv

\* updateMaxNumLevels reads the size of the peerstore and assigns the levels
\* in two steps, while streams and new heights change the peerstore, and every
\* call of broadcastAtLevel lowers the level of its message.  With any number of
\* nodes, any networks and any heights, the levels of a router are never more
\* than all nodes together would have, the level of a message is never below 0,
\* and a view only has addresses of nodes, even the view of a node that leaves
\* the validators and comes back.
THEOREM TypeCorrect == Spec => []TypeOK
<1>1. Init /\ DedupInv => TypesInv
  BY TypesInit DEF DedupInv
<1>2. TypesInv /\ ViewsInv /\ DedupInv /\ [Next]_vars => TypesInv'
  <2> SUFFICES ASSUME TypesInv, ViewsInv, DedupInv, [Next]_vars
               PROVE  TypesInv'
    OBVIOUS
  <2>0. NetOK /\ CallsOK
    BY DEF DedupInv
  <2>1. CASE Next
    BY <2>0, <2>1, TypesNode, TypesCall DEF Next, NextStep
  <2>2. CASE UNCHANGED vars
    BY <2>2 DEF vars, node, chain, TypesInv, RunTypes, CountTypes, TypedCalls
  <2> QED
    BY <2>1, <2>2
<1>3. TypesInv /\ ViewsInv /\ DedupInv => TypeOK
  BY DEF TypesInv, RunTypes, CountTypes, TypedCalls, TypedCall, RouterType, UpdateType,
     ViewsInv, Shapes, DedupInv, DedupedInv, NetOK, TypeOK
<1> QED
  BY <1>1, <1>2, <1>3, ViewsHold, DedupHolds, PTL DEF Spec

=============================================================================
