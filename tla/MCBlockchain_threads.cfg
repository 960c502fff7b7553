\* The node with its threads interleaved.
CONSTANTS
    Me = me
    Addr = {me, peer}
    Genesis = Genesis
    NoAddr = NoAddr
    Times = {1}
    Hash = {h0, h1, h2}
    GenesisHash = h0
    NoHash = NoHash
    Reward = 1
    Users = {cli, api}
    Net = {io}
    FullNode = TRUE
    Receivers = {peer}
    Amounts = {1, 2}
    MaxPeerTxs = 1
    Limits = {2, 5}
SPECIFICATION FairSpec
INVARIANTS TypeOK OverdraftBounded Rooted BlocksWellFormed
PROPERTY CallsReturn
