\* Three nodes, one of them in the bootstrap list; one is told to dial itself, one
\* does not know the address its peers see; nodes stop and start again.
CONSTANTS
    n1 = n1
    n2 = n2
    n3 = n3
    Node = {n1, n2, n3}
    Bootstrap = {n1}
    Connects <- Itself
    Wildcard = {n2}
    MaxDials = 1
SPECIFICATION FairSpec
INVARIANTS PeersTypeOK OwnPeerWasDialled
PROPERTIES HandshakeCompletes PeersSpread
CHECK_DEADLOCK FALSE
