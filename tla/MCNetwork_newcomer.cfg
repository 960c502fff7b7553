\* A node that starts late asks the only miner of a ring for its chain.
CONSTANTS
    n1 = n1
    n2 = n2
    n3 = n3
    Addr = {n1, n2, n3}
    Node = {n1, n2, n3}
    FullNodes = {n1}
    Difficulty <- Uneven
    FailedLimit = 2
    Payers = {}
    Receivers = {n2}
    Amounts = {1}
    Askers = {n3}
    Topology <- Ring
    MaxChannel = 1
    Genesis = Genesis
    NoAddr = NoAddr
    Times = {1}
    Hash = {h0, h1, h2}
    GenesisHash = h0
    NoHash = NoHash
    Reward = 1
SPECIFICATION FairSpec
PROPERTY NewcomerCatchesUp
CHECK_DEADLOCK FALSE
