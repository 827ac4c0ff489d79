----------------------------- MODULE HotPOKTSync -----------------------------
(***************************************************************************)
(* HotPOKT on a synchronous network, for the questions that need one.  The *)
(* validators in Live run, the others stopped after the NewRound message   *)
(* of their first round.  Reaches(n, m) says whether the network ever      *)
(* hands m to n.  What does arrive arrives in the order of the steps, and  *)
(* the round timeout is longer than any delay: a timer only expires once   *)
(* there is nothing left that a live validator would handle.               *)
(***************************************************************************)
EXTENDS HotPOKT

CONSTANTS
    Live,           \* the validators that run
    Reaches(_, _)   \* external: does the network deliver m to n?

ASSUME LiveAssumption == Live \subseteq Node

Arrives(n, m) == Reaches(n, m) /\ m.round = round[n]

\* m is still to be handled by n, and not only to be discarded.
Pending(n, m) ==
    /\ Arrives(n, m)
    /\ ShouldHandle(n, m) /\ IsValidMessageBlock(n, m)
    /\ m \notin indexed[n]

InOrder(n, m) ==
    /\ Arrives(n, m)
    /\ \A x \in msgs : Pending(n, x) => x.step >= m.step

SyncHandle(n) == \E m \in msgs : InOrder(n, m) /\ HandleMessage(n, m)

SyncTimeout(n) ==
    /\ \A k \in Live : \A m \in msgs : ~ Pending(k, m)
    /\ Timeout(n)

SyncNext == \E n \in Live : SyncHandle(n) \/ SyncTimeout(n)

SyncSpec == Init /\ [][SyncNext]_vars

\* The event loop keeps taking messages off the bus, and an armed timer
\* expires.
FairSyncSpec ==
    /\ SyncSpec
    /\ \A n \in Live : WF_vars(SyncHandle(n)) /\ WF_vars(SyncTimeout(n))

-----------------------------------------------------------------------------
(* Properties *)

\* Every live validator commits a block, through rounds whose leader is not
\* live: timeouts in step replace the leader until one gets its quorum.
AllLiveCommit == <>(\A n \in Live : \E c \in committed[n] : c.stateHash # Nil)

\* Once more than two thirds of the validators have voted for a proposal in
\* one round, a block is committed at that height.
QuorumCommits ==
    \A h \in 1 .. MaxHeight : \A r \in 0 .. MaxRound :
        (\E v \in msgs : /\ IsVote(v) /\ v.height = h /\ v.round = r
                         /\ ThresholdMet(Cardinality(
                              VotersFor(h, r, Prepare, v.block))))
          ~> (\E n \in Live : \E c \in committed[n] : c.height = h)

=============================================================================
