SPECIFICATION Spec
CONSTANTS
    Addrs <- MCAddrs
    Actors <- MCActors
    ActorType <- MCActorType
    Order <- MCOrder
    StakePool <- MCStakePool
    AppStakePool = "AppStake"
    Chains = {"c1"}
    Msgs <- MCMsgs
    ParamKeys <- MCParamKeys
    GenesisParams <- MCGenesisParams
    ParamOwner = "bob"
    GenesisAcc <- MCGenesisAcc
    GenesisRows <- MCGenesisRows
    Proposer = "val"
    MaxBlockTxs = 2
    MaxHeight = 4
    Nil = Nil
INVARIANTS
    TypeOK
    SameState
    
    
PROPERTIES
    SessionFixed
CHECK_DEADLOCK FALSE
