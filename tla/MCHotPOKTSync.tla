--------------------------- MODULE MCHotPOKTSync ----------------------------
(* Instances of HotPOKTSync: who hears whom. *)
EXTENDS HotPOKTSync

\* Everything sent arrives.
AllReach(n, m) == TRUE

\* Round 0: the Prepare proposal arrives everywhere, the votes for it do not.
\* Round 1: only the Prepare proposal to validator 4 is lost.
LostPrepare(n, m) ==
    IF m.round = 0 THEN m.type = "propose" ELSE ~ (n = 4 /\ m.step = Prepare)

\* Round 0: validator 1 is cut off and the Decide proposal is lost.
LostDecide(n, m) == m.round = 0 => n # 1 /\ m.src # 1 /\ m.step # Decide

\* Round 0: the Decide proposal is lost.  Rounds 1 to 4: only the NewRound
\* messages arrive.
LostRounds(n, m) ==
    /\ m.round = 0 => m.step # Decide
    /\ m.round \in 1 .. 4 => m.step = NewRound

\* Some of the schedules of the synchronous network: the validators take
\* turns, each handles all it has before the next one does, and none times out
\* of a round while another one is still in an earlier round.
TurnOf(n) == \A k \in Live : k < n => \A m \in msgs : ~ Pending(k, m)

Behind(k, n) == height[k] = height[n] /\ round[k] < round[n]

InTurnSpec ==
    Init /\ [][\E n \in Live :
                 \/ TurnOf(n) /\ SyncHandle(n)
                 \/ (\A k \in Live : ~ Behind(k, n)) /\ SyncTimeout(n)]_vars

=============================================================================
