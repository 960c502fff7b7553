\* A node learns of another through its peer.
CONSTANTS
    n1 = n1
    n2 = n2
    n3 = n3
    Node = {n1, n2, n3}
    Bootstrap = {n1}
    Connects <- OneMore
    Wildcard = {}
    MaxDials = 1
SPECIFICATION FairSpec
PROPERTY DiscoveredAreDialled
CHECK_DEADLOCK FALSE
