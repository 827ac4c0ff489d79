------------------------------ MODULE MCLedger ------------------------------
EXTENDS Ledger, TLC

\* alice is the output address of every actor.
MCAddrs     == {"alice", "bob", "app", "srv1", "srv2", "val", "old"}
MCActors    == {"app", "srv1", "srv2", "val", "old"}
MCActorType == "app" :> "app" @@ "val" :> "validator" @@ "old" :> "validator"
               @@ "srv1" :> "servicer" @@ "srv2" :> "servicer"
MCOrder     == <<"app", "old", "srv1", "srv2", "val">>
MCStakePool == "app" :> "AppStake" @@ "servicer" :> "ServicerStake"
               @@ "validator" :> "ValidatorStake"

MCParamKeys == {FeeKey, CutKey, BlocksKey} \cup PerSession \cup
    ({"min_stake", "max_chains", "unstaking_blocks", "min_pause_blocks",
      "max_pause_blocks"} \X {"app", "servicer", "validator"})

MCGenesisParams == [k \in MCParamKeys |->
    CASE k = FeeKey -> 1
      [] k = CutKey -> 50
      [] k = BlocksKey -> 2
      [] k[1] = "max_pause_blocks" -> 2
      [] k[1] = "unstaking_blocks" -> IF k[2] = "validator" THEN 1 ELSE 2
      [] OTHER -> 1]

MCGenesisAcc == [a \in MCAddrs |-> IF a = "alice" THEN 5 ELSE 0]

Staked(stake, paused, chains) ==
    [stake |-> stake, output |-> "alice", paused |-> paused,
     unstaking |-> NotUsed, chains |-> chains]

\* The genesis file has a validator that unstakes at height 2.
MCGenesisRows == "old" :> [Staked(1, NotUsed, {}) EXCEPT !.unstaking = 2]
    @@ "app" :> Staked(3, NotUsed, {"c1"}) @@ "srv2" :> Nil
    @@ "srv1" :> Staked(2, NotUsed, {"c1"}) @@ "val" :> Staked(4, 0, {})

Send(amount) == [type |-> "send", signer |-> "alice", from |-> "alice",
                 to |-> "bob", amount |-> amount]
Stake(a)     == [type |-> "stake", signer |-> "alice", actor |-> a,
                 output |-> "alice", amount |-> 2, chains |-> {"c1"}]
Of(type, a)  == [type |-> type, signer |-> "alice", actor |-> a]
Change(k, v) == [type |-> "change_parameter", signer |-> "bob", key |-> k, value |-> v]

MCMsgs == {Send(4), Stake("srv2"), Of("unstake", "srv1"), Of("unpause", "val"),
           Change(<<"unstaking_blocks", "servicer">>, 1), Change(BlocksKey, 3)}
=============================================================================
