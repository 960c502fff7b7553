\* Two nodes that mine, pay and ask for chains.
CONSTANTS
    n1 = n1
    n2 = n2
    n3 = n3
    Addr = {n1, n2}
    Node = {n1, n2}
    FullNodes = {n1, n2}
    Difficulty <- Uneven
    FailedLimit = 2
    Payers = {n1}
    Receivers = {n2}
    Amounts = {1}
    Askers = {n1, n2}
    Topology <- OnePair
    MaxChannel = 1
    Genesis = Genesis
    NoAddr = NoAddr
    Times = {1}
    Hash = {h0, h1, h2, h3}
    GenesisHash = h0
    NoHash = NoHash
    Reward = 1
SPECIFICATION Spec
PROPERTY AdoptsLongerChain
CHECK_DEADLOCK FALSE
