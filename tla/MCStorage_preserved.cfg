\* A node that is stopped between two calls and started again.
CONSTANTS
    Me = me
    Addr = {me, peer}
    Genesis = Genesis
    NoAddr = NoAddr
    Times = {1}
    Hash = {h0, h1, h2, h3}
    GenesisHash = h0
    NoHash = NoHash
    Reward = 1
    Users = {main}
    Net = {main}
    FullNode = TRUE
    Receivers = {peer}
    Amounts = {1}
    MaxPeerTxs = 0
    Starts = {FALSE}
    MaxRestarts = 2
SPECIFICATION StorageSpec
PROPERTY StatePreserved
